---- MODULE Spec2Model ----
(***************************************************************************)
(* Model of the definition cache and derived-state layer of my-app/App.js: *)
(* cache-key derivation, the cache index and the stored entries, the       *)
(* request orchestration (handleDefine) and the history ledger.            *)
(*                                                                         *)
(* JavaScript values are tagged records; strings are sequences of          *)
(* one-character strings so that trim, toLowerCase, parseInt and           *)
(* JSON.stringify can be computed the way the runtime computes them.       *)
(***************************************************************************)
EXTENDS Integers, Sequences, FiniteSets, TLC

\* ------------------------------------------------------------------------
\* JavaScript values
\* ------------------------------------------------------------------------
Undef == [t |-> "undefined"]

NaN == [t |-> "NaN"]

Str(s) == [t |-> "string", s |-> s]

Num(n) == [t |-> "number", n |-> n]

IsStr(v) == v.t = "string"

IsNum(v) == v.t = "number"

\* JavaScript truthiness of a value (used by the `x || default` idiom).
Truthy(v) ==
    CASE v.t = "undefined" -> FALSE
      [] v.t = "NaN" -> FALSE
      [] v.t = "string" -> v.s # <<>>
      [] v.t = "number" -> v.n # 0
      [] v.t = "boolean" -> v.b
      [] v.t = "object" -> TRUE
      [] OTHER -> FALSE

\* `a || b`
OrElse(a, b) == IF Truthy(a) THEN a ELSE b

UpperChars == <<"A", "B", "C", "D", "E", "F", "G", "H", "I", "J", "K", "L", "M",
                "N", "O", "P", "Q", "R", "S", "T", "U", "V", "W", "X", "Y", "Z">>

LowerChars == <<"a", "b", "c", "d", "e", "f", "g", "h", "i", "j", "k", "l", "m",
                "n", "o", "p", "q", "r", "s", "t", "u", "v", "w", "x", "y", "z">>

DigitChars == <<"0", "1", "2", "3", "4", "5", "6", "7", "8", "9">>

WhiteChars == {" ", "\t", "\n"}

IndexOf(c, seq) ==
    IF \E i \in 1..Len(seq) : seq[i] = c
    THEN CHOOSE i \in 1..Len(seq) : seq[i] = c
    ELSE 0

UpperSet == {UpperChars[i] : i \in 1..Len(UpperChars)}

\* String.prototype.toLowerCase on the modelled alphabet.
LowerChar(c) ==
    IF c \in UpperSet THEN LowerChars[IndexOf(c, UpperChars)] ELSE c

ToLowerCase(s) == [i \in 1..Len(s) |-> LowerChar(s[i])]

\* String.prototype.trim: drops leading and trailing white space only.
Trim(s) ==
    LET keep == {i \in 1..Len(s) : s[i] \notin WhiteChars}
    IN  IF keep = {} THEN <<>>
        ELSE LET lo == CHOOSE i \in keep : \A j \in keep : i <= j
                 hi == CHOOSE i \in keep : \A j \in keep : i >= j
             IN  SubSeq(s, lo, hi)

RECURSIVE DigitsOf(_)
\* Decimal digits of a natural number.
DigitsOf(n) ==
    IF n < 10 THEN <<DigitChars[n + 1]>>
    ELSE DigitsOf(n \div 10) \o <<DigitChars[(n % 10) + 1]>>

\* String(n) for an integer n.
NumToString(n) == IF n < 0 THEN <<"-">> \o DigitsOf(0 - n) ELSE DigitsOf(n)

RECURSIVE DigitsValue(_, _)
\* Value of the longest prefix of decimal digits of s, read after acc.
DigitsValue(s, acc) ==
    IF s = <<>> \/ IndexOf(Head(s), DigitChars) = 0 THEN acc
    ELSE DigitsValue(Tail(s), acc * 10 + (IndexOf(Head(s), DigitChars) - 1))

\* parseInt(s, 10) on a string: skip leading white space, an optional sign,
\* then the longest digit prefix; NaN when there is no digit.
ParseIntStr(s) ==
    LET keep == {i \in 1..Len(s) : s[i] \notin WhiteChars}
        body == IF keep = {} THEN <<>>
                ELSE SubSeq(s, CHOOSE i \in keep : \A j \in keep : i <= j, Len(s))
        neg  == body # <<>> /\ Head(body) = "-"
        rest == IF body # <<>> /\ Head(body) \in {"-", "+"} THEN Tail(body) ELSE body
    IN  IF rest = <<>> \/ IndexOf(Head(rest), DigitChars) = 0 THEN NaN
        ELSE Num(IF neg THEN 0 - DigitsValue(rest, 0) ELSE DigitsValue(rest, 0))

\* parseInt(v, 10): the argument is converted to a string first.
ParseInt(v) ==
    CASE v.t = "string" -> ParseIntStr(v.s)
      [] v.t = "number" -> Num(v.n)
      [] OTHER -> NaN

\* ------------------------------------------------------------------------
\* Objects: a sequence of <<property name, value>> pairs in insertion order
\* ------------------------------------------------------------------------
HasProp(obj, name) == \E i \in 1..Len(obj) : obj[i][1] = name

\* obj.name (undefined when the property is missing)
Get(obj, name) ==
    IF HasProp(obj, name)
    THEN obj[CHOOSE i \in 1..Len(obj) : obj[i][1] = name][2]
    ELSE Undef

CharCode(c) ==
    IF IndexOf(c, LowerChars) > 0 THEN 96 + IndexOf(c, LowerChars)
    ELSE IF IndexOf(c, UpperChars) > 0 THEN 64 + IndexOf(c, UpperChars)
    ELSE 0

RECURSIVE StrLess(_, _)
\* Default Array.prototype.sort order on strings: by UTF-16 code units.
StrLess(a, b) ==
    IF b = <<>> THEN FALSE
    ELSE IF a = <<>> THEN TRUE
    ELSE IF Head(a) = Head(b) THEN StrLess(Tail(a), Tail(b))
    ELSE CharCode(Head(a)) < CharCode(Head(b))

\* Object.keys(obj).sort() followed by the copy into sortedParams.
SortByKey(obj) ==
    LET rank(i) == Cardinality({j \in 1..Len(obj) : StrLess(obj[j][1], obj[i][1])}) + 1
    IN  [r \in 1..Len(obj) |-> obj[CHOOSE i \in 1..Len(obj) : rank(i) = r]]

\* JSON.stringify of a string: quoted, with quote and backslash escaped.
JsonString(s) ==
    LET esc(c) == IF c \in {"\"", "\\"} THEN <<"\\", c>> ELSE <<c>>
        F[i \in 0..Len(s)] == IF i = 0 THEN <<>> ELSE F[i - 1] \o esc(s[i])
    IN  <<"\"">> \o F[Len(s)] \o <<"\"">>

\* JSON.stringify of a property value; NaN is written as null.
JsonValue(v) ==
    CASE v.t = "string" -> JsonString(v.s)
      [] v.t = "number" -> NumToString(v.n)
      [] OTHER -> <<"n", "u", "l", "l">>

\* JSON.stringify of an object whose properties are all defined.
JsonObject(obj) ==
    LET F[i \in 0..Len(obj)] ==
            IF i = 0 THEN <<>>
            ELSE F[i - 1] \o (IF i > 1 THEN <<",">> ELSE <<>>)
                 \o JsonString(obj[i][1]) \o <<":">> \o JsonValue(obj[i][2])
    IN  <<"{">> \o F[Len(obj)] \o <<"}">>

\* ------------------------------------------------------------------------
\* Constants of the program
\* ------------------------------------------------------------------------
MAX_REQUESTED_LENGTH == 250

HISTORY_MAX_ITEMS == 50

CACHE_KEY_PREFIX == <<"@", "D", "e", "f", "i", "n", "i", "t", "i", "o", "n",
                      "C", "a", "c", "h", "e", ":">>

CACHE_INDEX_KEY == <<"@", "V", "o", "c", "a", "b", "M", "a", "s", "t", "e", "r", ":",
                     "d", "e", "f", "i", "n", "i", "t", "i", "o", "n", "s",
                     "C", "a", "c", "h", "e", "I", "n", "d", "e", "x", "_", "v", "2">>

HISTORY_KEY == <<"@", "V", "o", "c", "a", "b", "M", "a", "s", "t", "e", "r", ":",
                 "h", "i", "s", "t", "o", "r", "y", "_", "v", "2">>

FAVORITES_KEY == <<"@", "V", "o", "c", "a", "b", "M", "a", "s", "t", "e", "r", ":",
                   "f", "a", "v", "o", "r", "i", "t", "e", "s", "_", "v", "2">>

QUIZ_LIST_KEY == <<"@", "V", "o", "c", "a", "b", "M", "a", "s", "t", "e", "r", ":",
                   "q", "u", "i", "z", "L", "i", "s", "t", "_", "v", "2">>

WORD == <<"w", "o", "r", "d">>

LENGTH == <<"l", "e", "n", "g", "t", "h">>

TONE == <<"t", "o", "n", "e">>

CONTEXT == <<"c", "o", "n", "t", "e", "x", "t">>

LANG == <<"l", "a", "n", "g">>

NEUTRAL == <<"n", "e", "u", "t", "r", "a", "l">>

NONE == <<"n", "o", "n", "e">>

AUTO == <<"a", "u", "t", "o">>

\* ------------------------------------------------------------------------
\* generateCacheKey
\* ------------------------------------------------------------------------
\* The keyParams object literal of generateCacheKey.
KeyParams(params) ==
    << <<WORD, Str(ToLowerCase(Trim(OrElse(Get(params, WORD), Str(<<>>)).s)))>>,
       <<LENGTH, ParseInt(OrElse(Get(params, LENGTH), Num(0)))>>,
       <<TONE, Str(ToLowerCase(OrElse(Get(params, TONE), Str(NEUTRAL)).s))>>,
       <<CONTEXT, Str(ToLowerCase(OrElse(Get(params, CONTEXT), Str(NONE)).s))>>,
       <<LANG, Str(ToLowerCase(OrElse(Get(params, LANG), Str(AUTO)).s))>> >>

generateCacheKey(params) == CACHE_KEY_PREFIX \o JsonObject(SortByKey(KeyParams(params)))

\* ------------------------------------------------------------------------
\* Further JavaScript values: null, booleans, plain objects (TLA+ records
\* whose fields are JavaScript values)
\* ------------------------------------------------------------------------
Null == [t |-> "null"]

Bool(b) == [t |-> "boolean", b |-> b]

Obj(r) == [t |-> "object", o |-> r]

\* `{...r, [f]: v}`
Spread(r, f, v) == [g \in (DOMAIN r) \cup {f} |-> IF g = f THEN v ELSE r[g]]

\* `v?.f` and `v.f` on an object value that may be undefined
Field(v, f) == IF v.t = "object" /\ f \in DOMAIN v.o THEN v.o[f] ELSE Undef

\* JSON.parse(JSON.stringify(r)) of a record of JavaScript values: properties
\* whose value is undefined are not written, NaN comes back as null.
JsonRoundTripValue(v) ==
    CASE v.t = "undefined" -> Undef
      [] v.t = "NaN" -> Null
      [] v.t = "object" ->
            Obj([f \in {g \in DOMAIN v.o : v.o[g].t # "undefined"} |->
                    IF v.o[f].t = "NaN" THEN Null ELSE v.o[f]])
      [] OTHER -> v

JsonRoundTrip(r) ==
    [f \in {g \in DOMAIN r : r[g].t # "undefined"} |-> JsonRoundTripValue(r[f])]

\* `a === b`
StrictEq(a, b) == a.t # "NaN" /\ a = b

\* ------------------------------------------------------------------------
\* State
\* ------------------------------------------------------------------------
VARIABLES
    definitionsCacheIndex,  \* cache key -> Date.now() of the last index update
    asyncStorage,           \* AsyncStorage: storage key -> stored (parsed) value
    isInitialDataLoaded,    \* favLoaded && histLoaded && quizLoaded && cacheIdxLoaded
    history,                \* the History Ledger, newest first
    definitionResult,       \* the displayed result, or Null
    isLoading,
    error,                  \* the displayed error message, or Null
    toast,                  \* message of the last toast shown ("" before any)
    now,                    \* Date.now()
    req,                    \* per handleDefine invocation: where it is suspended
    clr,                    \* the clearCache invocation: where it is suspended
    started,                \* number of requests that passed validation so far
    keyIn,                  \* params objects handed to generateCacheKey
    keyOut,                 \* keys derived from keyIn
    recorded,               \* number of addToHistory calls of the record sequence
    favorites,              \* the Favorites Set, newest first
    quizList,               \* the Quiz List, newest first
    rendered,               \* the favorites and quizList the mounted callbacks close over
    saveEffect              \* the save effects of useSimplePersistentState: the
                            \* collections they last ran with, the setItem calls
                            \* not yet carried out, whether a Save Error was logged
vars == <<definitionsCacheIndex, asyncStorage, isInitialDataLoaded, history,
          definitionResult, isLoading, error, toast, now, req, clr, started,
          keyIn, keyOut, recorded, favorites, quizList, rendered, saveEffect>>

listVars == <<favorites, quizList, rendered>>

uiVars == <<definitionResult, isLoading, error, toast>>

keyVars == <<keyIn, keyOut, recorded, listVars, saveEffect>>

\* What only handleDefine, the key derivation, the record sequence and the
\* word lists touch.
rest == <<started, keyIn, keyOut, recorded, listVars, saveEffect>>

\* ------------------------------------------------------------------------
\* Bounds of the model
\* ------------------------------------------------------------------------
\* Date.now() advances at most this far.
MaxClock == 2

\* Requests that pass validation in one run.
MaxRequests == 2

\* Concurrent handleDefine invocations.
Tasks == {"t1", "t2"}

\* ------------------------------------------------------------------------
\* validateInputs
\* ------------------------------------------------------------------------
MsgNoWord == "Please enter a word or phrase."

MsgBadLength == "Please enter a valid length (1-250)."

\* A variant of validateInputs that accepts every length.
validateInputs_AnyLength(wordToValidate, lengthToValidate) ==
    IF ~Truthy(wordToValidate) \/ Trim(wordToValidate.s) = <<>> THEN MsgNoWord ELSE ""

\* Returns the validation message, or "" for `null` (no error).
validateInputs(wordToValidate, lengthToValidate) ==
    LET numLength == ParseInt(lengthToValidate)
    IN  IF ~Truthy(wordToValidate) \/ Trim(wordToValidate.s) = <<>> THEN MsgNoWord
        ELSE IF numLength.t = "NaN" \/ numLength.n < 1 \/ numLength.n > MAX_REQUESTED_LENGTH
             THEN MsgBadLength
        ELSE ""

\* ------------------------------------------------------------------------
\* addToHistory
\* ------------------------------------------------------------------------
LowerOrEmpty(v) == ToLowerCase(OrElse(v, Str(<<>>)).s)

\* A variant of SameSearch that compares the words as they are spelled.
SameSearch_CaseSensitive(h, newItem) ==
    /\ h.word.s = newItem.word.s
    /\ StrictEq(h.length, newItem.length)
    /\ LowerOrEmpty(h.tone) = LowerOrEmpty(newItem.tone)
    /\ LowerOrEmpty(h.context) = LowerOrEmpty(newItem.context)
    /\ LowerOrEmpty(h.lang) = LowerOrEmpty(newItem.lang)

\* The filter predicate of addToHistory: h is a previous entry for the same
\* search parameters as newItem.
SameSearch(h, newItem) ==
    /\ ToLowerCase(h.word.s) = ToLowerCase(newItem.word.s)
    /\ StrictEq(h.length, newItem.length)
    /\ LowerOrEmpty(h.tone) = LowerOrEmpty(newItem.tone)
    /\ LowerOrEmpty(h.context) = LowerOrEmpty(newItem.context)
    /\ LowerOrEmpty(h.lang) = LowerOrEmpty(newItem.lang)

\* A variant of Keep that does not cut.
Keep_All(seq, n) == seq

\* A variant of Keep that keeps the last n elements.
Keep_Last(seq, n) == SubSeq(seq, IF Len(seq) < n THEN 1 ELSE Len(seq) - n + 1, Len(seq))

\* seq.slice(0, n)
Keep(seq, n) == SubSeq(seq, 1, IF Len(seq) < n THEN Len(seq) ELSE n)

\* A variant of addToHistory that keeps the earlier items of the same search.
addToHistory_KeepsOld(prevHistory, item, ts) ==
    IF ~Truthy(item.word) THEN prevHistory
    ELSE Keep(<<Spread(item, "timestamp", ts)>> \o prevHistory, HISTORY_MAX_ITEMS)

\* The history after addToHistory(item) at time ts.
addToHistory(prevHistory, item, ts) ==
    IF ~Truthy(item.word) THEN prevHistory
    ELSE LET newItem == Spread(item, "timestamp", ts)
             updatedHistory == SelectSeq(prevHistory, LAMBDA h : ~SameSearch(h, newItem))
         IN  Keep(<<newItem>> \o updatedHistory, HISTORY_MAX_ITEMS)

\* A variant of HistoryItemOf that takes the length the service delivered.
HistoryItemOf_ActualLength(res) ==
    [word |-> Field(Obj(res), "word"),
     length |-> Field(Obj(res), "actualLength"),
     tone |-> Field(Field(Obj(res), "config"), "tone"),
     context |-> Field(Field(Obj(res), "config"), "context"),
     lang |-> Field(Field(Obj(res), "config"), "effectiveLang"),
     result |-> [actualLength |-> Field(Obj(res), "actualLength"),
                 status |-> Field(Obj(res), "status"),
                 effectiveLang |-> Field(Field(Obj(res), "config"), "effectiveLang")]]

\* The item handleDefine hands to addToHistory for a cached or fetched result.
HistoryItemOf(res) ==
    [word |-> Field(Obj(res), "word"),
     length |-> Field(Obj(res), "requestedLength"),
     tone |-> Field(Field(Obj(res), "config"), "tone"),
     context |-> Field(Field(Obj(res), "config"), "context"),
     lang |-> Field(Field(Obj(res), "config"), "effectiveLang"),
     result |-> [actualLength |-> Field(Obj(res), "actualLength"),
                 status |-> Field(Obj(res), "status"),
                 effectiveLang |-> Field(Field(Obj(res), "config"), "effectiveLang")]]

\* ------------------------------------------------------------------------
\* Inputs: what the user can submit, and what the Define Service can answer
\* ------------------------------------------------------------------------
\* Form state (word, length, tone, contextValue, lang); all are strings.
Forms ==
    [word : {Str(<<>>), Str(<<" ", "A">>), Str(<<"b">>)},
     length : {Str(<<"5">>), Str(<<"0">>), Str(<<"x">>), Str(<<"2", "5", "1">>)},
     tone : {Str(<<>>)},
     contextValue : {Str(<<>>)},
     lang : {Str(<<>>)}]

\* The params argument of handleDefine: none (form submit), or the fields of
\* a history item (handleHistoryPress).
CallParams ==
    { <<>>,
      << <<WORD, Str(<<"a">>)>>, <<LENGTH, Num(5)>>, <<TONE, Str(NEUTRAL)>>,
         <<CONTEXT, Undef>>, <<LANG, Undef>> >> }

DefinitionText == Str(<<"d">>)

\* Success bodies of the Define Service for a request body: the word comes
\* back as sent; config echoes the options or their defaults.
ServiceBodies(body) ==
    { [word |-> Str(w),
       result |-> DefinitionText,
       actualLength |-> Num(1),
       status |-> Str(<<"o", "k">>),
       config |-> Obj([tone |-> OrElse(Get(body, TONE), Str(NEUTRAL)),
                       context |-> OrElse(Get(body, CONTEXT), Str(NONE)),
                       effectiveLang |-> OrElse(Get(body, LANG), Str(<<"e", "n">>))])]
      : w \in {Get(body, WORD).s} }

MsgService == "service message"

MsgStatus == "API request failed with status: 500"

MsgUnexpected == "An unexpected error occurred while fetching the definition."

\* error.message of what the try block of handleDefine can throw: the
\* service's message, the status fallback, or an error without a message.
FetchErrors == {MsgService, MsgStatus, ""}

\* requestParams of handleDefine
RequestParams(wordToDefine, requestedLength, toneParam, contextParam, langParam) ==
    << <<WORD, Str(wordToDefine)>>,
       <<LENGTH, requestedLength>>,
       <<TONE, OrElse(toneParam, Undef)>>,
       <<CONTEXT, OrElse(contextParam, Undef)>>,
       <<LANG, OrElse(langParam, Undef)>> >>

\* apiRequestBody of handleDefine: optional fields only when they have a value
ApiRequestBody(requestParams) ==
    << <<WORD, Get(requestParams, WORD)>>,
       <<LENGTH, ParseInt(Get(requestParams, LENGTH))>> >>
    \o SelectSeq(SubSeq(requestParams, 3, 5), LAMBDA pr : Truthy(pr[2]))

\* finalResultData of handleDefine
FinalResultData(responseData, requestParams) ==
    Spread(Spread(responseData, "requestedLength", ParseInt(Get(requestParams, LENGTH))),
           "cacheHit", Bool(FALSE))

\* dataToSave of saveToCache
DataToSave(resultData, ts) == Spread(resultData, "savedAt", Num(ts))

\* ------------------------------------------------------------------------
\* Initial state
\* ------------------------------------------------------------------------
EmptyIndex == [k \in {} |-> 0]

\* The request an earlier session cached: the word "b" at length 5.
PriorParams ==
    RequestParams(<<"b">>, Str(<<"5">>), Str(<<>>), Str(<<>>), Str(<<>>))

\* AsyncStorage as an earlier session that cached PriorParams left it: the
\* entry under its cache key and the index snapshot under CACHE_INDEX_KEY.
PriorSessionStore ==
    LET cacheKey == generateCacheKey(PriorParams)
        responseData == CHOOSE b \in ServiceBodies(ApiRequestBody(PriorParams)) : TRUE
        entry == JsonRoundTrip(DataToSave(FinalResultData(responseData, PriorParams), 1))
    IN  [k \in {cacheKey, CACHE_INDEX_KEY} |->
            IF k = cacheKey THEN entry ELSE [j \in {cacheKey} |-> 1]]

\* AsyncStorage at process start: empty (first run) or left by an earlier session.
InitialStores == {EmptyIndex, PriorSessionStore}

IdleReq == [pc |-> "idle"]

IdleClr == [pc |-> "idle"]

\* No save effect has written yet: `ld` is false in every hook.
NoSaves ==
    [ran |-> {},
     st |-> [favorites |-> <<>>, history |-> <<>>, quizList |-> <<>>,
             definitionsCacheIndex |-> EmptyIndex],
     pending |-> <<>>,
     saveError |-> FALSE]

NoKeyIn == <<>>

InitApp ==
    /\ definitionsCacheIndex = EmptyIndex
    /\ isInitialDataLoaded = FALSE
    /\ history = <<>>
    /\ definitionResult = Null
    /\ isLoading = FALSE
    /\ error = Null
    /\ toast = ""
    /\ now = 1
    /\ req = [t \in Tasks |-> IdleReq]
    /\ clr = IdleClr
    /\ started = 0
    /\ favorites = <<>>
    /\ quizList = <<>>
    /\ rendered = [favorites |-> <<>>, quizList |-> <<>>]
    /\ saveEffect = NoSaves

Init ==
    /\ InitApp
    /\ asyncStorage \in InitialStores
    /\ keyIn = NoKeyIn
    /\ keyOut = <<>>
    /\ recorded = 0

\* ------------------------------------------------------------------------
\* Index updates (the functional updates passed to setDefinitionsCacheIndex)
\* ------------------------------------------------------------------------
\* A variant of IndexWithout that resets the whole index.
IndexWithout_DropsAll(prev, cacheKey) == EmptyIndex

\* prev => { const n = {...prev}; delete n[cacheKey]; return n; }
IndexWithout(prev, cacheKey) == [k \in (DOMAIN prev) \ {cacheKey} |-> prev[k]]

\* prev => ({ ...prev, [cacheKey]: Date.now() })
IndexWith(prev, cacheKey, ts) ==
    [k \in (DOMAIN prev) \cup {cacheKey} |-> IF k = cacheKey THEN ts ELSE prev[k]]

\* A variant of InIndex that finds every key.
InIndex_AnyKey(index, cacheKey) == TRUE

\* `!definitionsCacheIndex[cacheKey]` is false
InIndex(index, cacheKey) == cacheKey \in DOMAIN index /\ Truthy(Num(index[cacheKey]))

\* ------------------------------------------------------------------------
\* handleDefine, with getCachedDefinition and saveToCache inlined at their
\* call sites; one action per stretch of code between two awaits
\* ------------------------------------------------------------------------
\* The fetch is issued: handleDefine suspends at `await fetch(...)`.
Fetching(requestParams) ==
    [pc |-> "fetching", params |-> requestParams, body |-> ApiRequestBody(requestParams)]

\* The first lines of handleDefine: the call's params over the form state.
WordToDefine(params, form) ==
    Trim(OrElse(OrElse(Get(params, WORD), form.word), Str(<<>>)).s)

RequestedLength(params, form) == OrElse(Get(params, LENGTH), form.length)

RequestParamsOf(params, form) ==
    RequestParams(WordToDefine(params, form),
                  RequestedLength(params, form),
                  IF Get(params, TONE) # Undef THEN Get(params, TONE) ELSE form.tone,
                  IF Get(params, CONTEXT) # Undef THEN Get(params, CONTEXT)
                  ELSE form.contextValue,
                  IF Get(params, LANG) # Undef THEN Get(params, LANG) ELSE form.lang)

\* What handleDefine computes from its arguments before it touches any
\* state, for every input: the validation message, requestParams and the
\* cache key getCachedDefinition and saveToCache derive from them.
Calls ==
    { [validationError |-> validateInputs(Str(WordToDefine(params, form)),
                                          RequestedLength(params, form)),
       requestParams |-> RequestParamsOf(params, form),
       cacheKey |-> generateCacheKey(RequestParamsOf(params, form))]
      : params \in CallParams, form \in Forms }

\* The inputs that pass validateInputs.
ValidCalls == {c \in Calls : c.validationError = ""}

\* `generateCacheKey(params)` at the call sites in getCachedDefinition and
\* saveToCache
CacheKeyOf(requestParams) ==
    (CHOOSE c \in Calls : c.requestParams = requestParams).cacheKey

\* A variant of HandleDefineStart that leaves the displayed result.
HandleDefineStart_KeepsResult(t, call) ==
    /\ isInitialDataLoaded
    /\ req[t].pc = "idle"
    /\ IF call.validationError # ""
       THEN /\ error' = Str(call.validationError)
            /\ toast' = call.validationError
            /\ UNCHANGED <<definitionResult, isLoading, req, started>>
       ELSE /\ started < MaxRequests
            /\ started' = started + 1
            /\ isLoading' = TRUE
            /\ error' = Null
            /\ definitionResult' = definitionResult
            /\ toast' = toast
            /\ req' = [req EXCEPT ![t] =
                         IF /\ isInitialDataLoaded
                            /\ InIndex(definitionsCacheIndex, call.cacheKey)
                         THEN [pc |-> "reading", params |-> call.requestParams]
                         ELSE Fetching(call.requestParams)]
    /\ UNCHANGED <<definitionsCacheIndex, asyncStorage, isInitialDataLoaded,
                   history, now, clr, keyVars>>

\* handleDefine from its entry to its first suspension: validation, the
\* reset of the display, and getCachedDefinition up to its store read.
HandleDefineStart(t, call) ==
    /\ isInitialDataLoaded   \* every screen that calls handleDefine renders only then
    /\ req[t].pc = "idle"
    /\ IF call.validationError # ""
       THEN /\ error' = Str(call.validationError)
            /\ toast' = call.validationError
            /\ UNCHANGED <<definitionResult, isLoading, req, started>>
       ELSE /\ started < MaxRequests
            /\ started' = started + 1
            /\ isLoading' = TRUE
            /\ error' = Null
            /\ definitionResult' = Null
            /\ toast' = toast
            /\ req' = [req EXCEPT ![t] =
                         IF /\ isInitialDataLoaded
                            /\ InIndex(definitionsCacheIndex, call.cacheKey)
                         THEN [pc |-> "reading", params |-> call.requestParams]
                         ELSE Fetching(call.requestParams)]
    /\ UNCHANGED <<definitionsCacheIndex, asyncStorage, isInitialDataLoaded,
                   history, now, clr, keyVars>>

\* AsyncStorage.getItem(cacheKey) is carried out by the store: it yields the
\* stored text, null when there is none, or fails.
StoreRead(t) ==
    LET cacheKey == CacheKeyOf(req[t].params)
    IN  /\ req[t].pc = "reading"
        /\ \E got \in {IF cacheKey \in DOMAIN asyncStorage
                       THEN [kind |-> "data", data |-> asyncStorage[cacheKey]]
                       ELSE [kind |-> "null"],
                       [kind |-> "throw"]} :
              req' = [req EXCEPT ![t] = [pc |-> "read", params |-> req[t].params, got |-> got]]
        /\ UNCHANGED <<definitionsCacheIndex, asyncStorage, isInitialDataLoaded,
                       history, uiVars, now, clr, rest>>

\* A variant of CachedResult that hands the stored entry back as it is.
CachedResult_AsStored(definitionData) == definitionData

\* `{ ...JSON.parse(definitionData), cacheHit: true }`
CachedResult(definitionData) == Spread(definitionData, "cacheHit", Bool(TRUE))

\* getCachedDefinition resumes after its read and returns; handleDefine
\* resumes with cachedResult: the cache-hit branch, or on to the fetch.
LookupResume(t) ==
    LET cacheKey == CacheKeyOf(req[t].params)
        cachedResult == CachedResult(req[t].got.data)
    IN  /\ req[t].pc = "read"
        /\ IF req[t].got.kind = "data"
           THEN /\ definitionResult' = Obj(cachedResult)
                /\ isLoading' = FALSE
                /\ history' = addToHistory(history, HistoryItemOf(cachedResult), now)
                /\ toast' = "Definition loaded from local cache."
                /\ req' = [req EXCEPT ![t] = IdleReq]
                /\ UNCHANGED <<definitionsCacheIndex, error>>
           ELSE /\ definitionsCacheIndex' = IndexWithout(definitionsCacheIndex, cacheKey)
                /\ req' = [req EXCEPT ![t] = Fetching(req[t].params)]
                /\ UNCHANGED <<history, uiVars>>
        /\ UNCHANGED <<asyncStorage, isInitialDataLoaded, now, clr, rest>>

\* The fetch settles with a success body: the result is displayed and
\* recorded, and saveToCache runs up to its store write.
FetchSucceeds(t) ==
    /\ req[t].pc = "fetching"
    /\ \E responseData \in ServiceBodies(req[t].body) :
          LET finalResultData == FinalResultData(responseData, req[t].params)
              dataToSave == DataToSave(finalResultData, now)
          IN  /\ definitionResult' = Obj(finalResultData)
              /\ history' = addToHistory(history, HistoryItemOf(finalResultData), now)
              /\ req' = [req EXCEPT ![t] = [pc |-> "writing", params |-> req[t].params,
                                            data |-> JsonRoundTrip(dataToSave)]]
    /\ UNCHANGED <<definitionsCacheIndex, asyncStorage, isInitialDataLoaded,
                   isLoading, error, toast, now, clr, rest>>

\* A variant of FetchFails that leaves the displayed result.
FetchFails_KeepsResult(t) ==
    /\ req[t].pc = "fetching"
    /\ \E message \in FetchErrors :
          LET errorMessage == IF message # "" THEN message ELSE MsgUnexpected
          IN  /\ error' = Str(errorMessage)
              /\ toast' = errorMessage
    /\ isLoading' = FALSE
    /\ req' = [req EXCEPT ![t] = IdleReq]
    /\ UNCHANGED <<definitionsCacheIndex, asyncStorage, isInitialDataLoaded,
                   history, definitionResult, now, clr, rest>>

\* A variant of FetchFails without the finally block.
FetchFails_StaysLoading(t) ==
    /\ req[t].pc = "fetching"
    /\ \E message \in FetchErrors :
          LET errorMessage == IF message # "" THEN message ELSE MsgUnexpected
          IN  /\ error' = Str(errorMessage)
              /\ toast' = errorMessage
    /\ definitionResult' = Null
    /\ req' = [req EXCEPT ![t] = IdleReq]
    /\ UNCHANGED <<definitionsCacheIndex, asyncStorage, isInitialDataLoaded,
                   history, isLoading, now, clr, rest>>

\* The fetch fails, or the service answers with a non-success status.
FetchFails(t) ==
    /\ req[t].pc = "fetching"
    /\ \E message \in FetchErrors :
          LET errorMessage == IF message # "" THEN message ELSE MsgUnexpected
          IN  /\ error' = Str(errorMessage)
              /\ toast' = errorMessage
    /\ definitionResult' = Null
    /\ isLoading' = FALSE
    /\ req' = [req EXCEPT ![t] = IdleReq]
    /\ UNCHANGED <<definitionsCacheIndex, asyncStorage, isInitialDataLoaded,
                   history, now, clr, rest>>

\* AsyncStorage.setItem(cacheKey, text) is carried out by the store, or fails.
StoreWrite(t) ==
    LET cacheKey == CacheKeyOf(req[t].params)
    IN  /\ req[t].pc = "writing"
        /\ \E ok \in BOOLEAN :
              /\ asyncStorage' = IF ok
                                 THEN [k \in (DOMAIN asyncStorage) \cup {cacheKey} |->
                                          IF k = cacheKey THEN req[t].data ELSE asyncStorage[k]]
                                 ELSE asyncStorage
              /\ req' = [req EXCEPT ![t] = [pc |-> "written", params |-> req[t].params,
                                            ok |-> ok]]
        /\ UNCHANGED <<definitionsCacheIndex, isInitialDataLoaded, history, uiVars,
                       now, clr, rest>>

MsgSaveFailed == "Could not save definition locally."

\* A variant of SaveResume that never updates the index.
SaveResume_SkipsIndex(t) ==
    /\ req[t].pc = "written"
    /\ toast' = IF req[t].ok THEN toast ELSE MsgSaveFailed
    /\ isLoading' = FALSE
    /\ req' = [req EXCEPT ![t] = IdleReq]
    /\ UNCHANGED <<definitionsCacheIndex, asyncStorage, isInitialDataLoaded, history,
                   definitionResult, error, now, clr, rest>>

\* A variant of SaveResume that updates the index after a failed write too.
SaveResume_IndexesAnyway(t) ==
    /\ req[t].pc = "written"
    /\ definitionsCacheIndex' =
          IndexWith(definitionsCacheIndex, CacheKeyOf(req[t].params), now)
    /\ toast' = IF req[t].ok THEN toast ELSE MsgSaveFailed
    /\ isLoading' = FALSE
    /\ req' = [req EXCEPT ![t] = IdleReq]
    /\ UNCHANGED <<asyncStorage, isInitialDataLoaded, history, definitionResult,
                   error, now, clr, rest>>

\* A variant of SaveResume that treats a failed write as a failed request.
SaveResume_FailsRequest(t) ==
    LET cacheKey == CacheKeyOf(req[t].params)
    IN  /\ req[t].pc = "written"
        /\ IF req[t].ok
           THEN /\ definitionsCacheIndex' = IndexWith(definitionsCacheIndex, cacheKey, now)
                /\ UNCHANGED <<toast, error, definitionResult>>
           ELSE /\ toast' = MsgSaveFailed
                /\ error' = Str(MsgSaveFailed)
                /\ definitionResult' = Null
                /\ UNCHANGED definitionsCacheIndex
        /\ isLoading' = FALSE
        /\ req' = [req EXCEPT ![t] = IdleReq]
        /\ UNCHANGED <<asyncStorage, isInitialDataLoaded, history, now, clr, rest>>

\* saveToCache resumes after its write (index update, or the catch block),
\* then the finally block of handleDefine.
SaveResume(t) ==
    LET cacheKey == CacheKeyOf(req[t].params)
    IN  /\ req[t].pc = "written"
        /\ IF req[t].ok
           THEN /\ definitionsCacheIndex' = IndexWith(definitionsCacheIndex, cacheKey, now)
                /\ toast' = toast
           ELSE /\ toast' = MsgSaveFailed
                /\ UNCHANGED definitionsCacheIndex
        /\ isLoading' = FALSE
        /\ req' = [req EXCEPT ![t] = IdleReq]
        /\ UNCHANGED <<asyncStorage, isInitialDataLoaded, history, definitionResult,
                       error, now, clr, rest>>

\* ------------------------------------------------------------------------
\* clearCache
\* ------------------------------------------------------------------------
\* The success message of clearCache, without its count.
MsgCleared == "definition(s) cleared from cache."

MsgClearFailed == "Cache clear failed. Some items might remain."

\* A variant of ClearStart that removes every key of the store.
ClearStart_AllKeys ==
    LET keysToRemove == DOMAIN asyncStorage
    IN  /\ clr.pc = "idle"
        /\ IF keysToRemove # {}
           THEN /\ clr' = [pc |-> "removing", keys |-> keysToRemove]
                /\ UNCHANGED <<definitionsCacheIndex, toast>>
           ELSE /\ definitionsCacheIndex' = EmptyIndex
                /\ toast' = MsgCleared
                /\ clr' = IdleClr
        /\ UNCHANGED <<asyncStorage, isInitialDataLoaded, history, definitionResult,
                       isLoading, error, now, req, rest>>

\* clearCache from its entry to its suspension at multiRemove; with nothing
\* to remove it runs to its end.
ClearStart ==
    LET keysToRemove == DOMAIN definitionsCacheIndex
    IN  /\ clr.pc = "idle"
        /\ IF keysToRemove # {}
           THEN /\ clr' = [pc |-> "removing", keys |-> keysToRemove]
                /\ UNCHANGED <<definitionsCacheIndex, toast>>
           ELSE /\ definitionsCacheIndex' = EmptyIndex
                /\ toast' = MsgCleared
                /\ clr' = IdleClr
        /\ UNCHANGED <<asyncStorage, isInitialDataLoaded, history, definitionResult,
                       isLoading, error, now, req, rest>>

\* AsyncStorage.multiRemove(keysToRemove) is carried out by the store: all
\* keys are removed, or it fails having removed only some of them.
StoreMultiRemove ==
    /\ clr.pc = "removing"
    /\ \E removed \in SUBSET clr.keys :
          /\ asyncStorage' = [k \in (DOMAIN asyncStorage) \ removed |-> asyncStorage[k]]
          /\ clr' = [pc |-> "removed", keys |-> clr.keys, ok |-> (removed = clr.keys)]
    /\ UNCHANGED <<definitionsCacheIndex, isInitialDataLoaded, history, uiVars,
                   now, req, rest>>

\* A variant of ClearResume that keeps the index when the removal failed.
ClearResume_KeepsIndexOnFailure ==
    /\ clr.pc = "removed"
    /\ definitionsCacheIndex' = IF clr.ok THEN EmptyIndex ELSE definitionsCacheIndex
    /\ toast' = IF clr.ok THEN MsgCleared ELSE MsgClearFailed
    /\ clr' = IdleClr
    /\ UNCHANGED <<asyncStorage, isInitialDataLoaded, history, definitionResult,
                   isLoading, error, now, req, rest>>

\* clearCache resumes after multiRemove: the index is reset on both paths.
ClearResume ==
    /\ clr.pc = "removed"
    /\ definitionsCacheIndex' = EmptyIndex
    /\ toast' = IF clr.ok THEN MsgCleared ELSE MsgClearFailed
    /\ clr' = IdleClr
    /\ UNCHANGED <<asyncStorage, isInitialDataLoaded, history, definitionResult,
                   isLoading, error, now, req, rest>>

\* ------------------------------------------------------------------------
\* clearHistory (after the confirmation), initial load, the clock
\* ------------------------------------------------------------------------
MsgHistoryCleared == "Search History Cleared"

ClearHistory ==
    /\ history' = <<>>
    /\ toast' = MsgHistoryCleared
    /\ UNCHANGED <<definitionsCacheIndex, asyncStorage, isInitialDataLoaded,
                   definitionResult, isLoading, error, now, req, clr, rest>>

\* A variant of InitialLoad that reports a snapshot that was not read.
InitialLoad_FailureReported ==
    /\ ~isInitialDataLoaded
    /\ isInitialDataLoaded' = TRUE
    /\ \E indexRead, historyRead, favoritesRead, quizRead \in BOOLEAN :
          /\ error' = IF indexRead /\ historyRead /\ favoritesRead /\ quizRead
                      THEN error
                      ELSE Str("Load Error")
          /\ definitionsCacheIndex' = IF indexRead /\ CACHE_INDEX_KEY \in DOMAIN asyncStorage
                                      THEN asyncStorage[CACHE_INDEX_KEY]
                                      ELSE definitionsCacheIndex
          /\ history' = IF historyRead /\ HISTORY_KEY \in DOMAIN asyncStorage
                        THEN asyncStorage[HISTORY_KEY]
                        ELSE history
          /\ favorites' = IF favoritesRead /\ FAVORITES_KEY \in DOMAIN asyncStorage
                          THEN asyncStorage[FAVORITES_KEY]
                          ELSE favorites
          /\ quizList' = IF quizRead /\ QUIZ_LIST_KEY \in DOMAIN asyncStorage
                         THEN asyncStorage[QUIZ_LIST_KEY]
                         ELSE quizList
    /\ rendered' = [favorites |-> favorites', quizList |-> quizList']
    /\ UNCHANGED <<asyncStorage, definitionResult, isLoading, toast, now, req, clr,
                   started, keyIn, keyOut, recorded, saveEffect>>

\* The initial loads of useSimplePersistentState have settled: a snapshot that
\* was read replaces the in-memory value; no snapshot, or a read that failed,
\* leaves the initial value.
InitialLoad ==
    /\ ~isInitialDataLoaded
    /\ isInitialDataLoaded' = TRUE
    /\ \E indexRead, historyRead, favoritesRead, quizRead \in BOOLEAN :
          /\ definitionsCacheIndex' = IF indexRead /\ CACHE_INDEX_KEY \in DOMAIN asyncStorage
                                      THEN asyncStorage[CACHE_INDEX_KEY]
                                      ELSE definitionsCacheIndex
          /\ history' = IF historyRead /\ HISTORY_KEY \in DOMAIN asyncStorage
                        THEN asyncStorage[HISTORY_KEY]
                        ELSE history
          /\ favorites' = IF favoritesRead /\ FAVORITES_KEY \in DOMAIN asyncStorage
                          THEN asyncStorage[FAVORITES_KEY]
                          ELSE favorites
          /\ quizList' = IF quizRead /\ QUIZ_LIST_KEY \in DOMAIN asyncStorage
                         THEN asyncStorage[QUIZ_LIST_KEY]
                         ELSE quizList
    /\ rendered' = [favorites |-> favorites', quizList |-> quizList']
    /\ UNCHANGED <<asyncStorage, uiVars, now, req, clr, started, keyIn, keyOut, recorded,
                   saveEffect>>

Tick ==
    /\ now < MaxClock
    /\ now' = now + 1
    /\ UNCHANGED <<definitionsCacheIndex, asyncStorage, isInitialDataLoaded, history,
                   uiVars, req, clr, rest>>

\* ------------------------------------------------------------------------
\* The application
\* ------------------------------------------------------------------------
\* One step of the handleDefine invocation t, for inputs that pass validation.
RequestStep(t) ==
    \/ \E call \in ValidCalls : HandleDefineStart(t, call)
    \/ StoreRead(t)
    \/ LookupResume(t)
    \/ FetchSucceeds(t)
    \/ FetchFails(t)
    \/ StoreWrite(t)
    \/ SaveResume(t)

\* The definition cache: requests and cache clearing, interleaved at their
\* suspension points, after a first run or an earlier session.
Next ==
    \/ \E t \in Tasks : RequestStep(t)
    \/ ClearStart
    \/ StoreMultiRemove
    \/ ClearResume
    \/ InitialLoad

Spec == Init /\ [][Next]_vars

\* ------------------------------------------------------------------------
\* Properties of the definition cache (specification Spec)
\* ------------------------------------------------------------------------
IsCacheKey(k) ==
    /\ Len(k) >= Len(CACHE_KEY_PREFIX)
    /\ SubSeq(k, 1, Len(CACHE_KEY_PREFIX)) = CACHE_KEY_PREFIX

\* The cache keys that have an entry in the store.
StoredCacheKeys == {k \in DOMAIN asyncStorage : IsCacheKey(k)}

IndexedKeys == DOMAIN definitionsCacheIndex

\* A saveToCache has written k and has not yet resumed to update the index.
AwaitsIndexUpdate(k) ==
    \E t \in Tasks : req[t].pc = "written" /\ req[t].ok /\ CacheKeyOf(req[t].params) = k

Covered == \A k \in StoredCacheKeys : k \in IndexedKeys \/ AwaitsIndexUpdate(k)

\* The step that ends clearCache after its bulk removal.
IndexResetStep == clr.pc = "removed" /\ clr'.pc = "idle"

\* The step in which the lookup of invocation t resumes after a read that found
\* nothing or failed.
MissResumeStep(t) ==
    req[t].pc = "read" /\ req[t].got.kind \in {"null", "throw"} /\ req'[t] # req[t]

\* C1 as stated: the index never comes to under-approximate the store: when
\* every cache key that has an entry in the store is in the in-memory index,
\* the same holds after any step of a lookup, a store or a clear.
C1_IndexNeverUnderApproximates ==
    [][(isInitialDataLoaded /\ StoredCacheKeys \subseteq IndexedKeys)
       => StoredCacheKeys' \subseteq DOMAIN definitionsCacheIndex']_vars

\* C1, amended: a stored cache key is in the index or awaits the index
\* update of the saveToCache that wrote it, and every step keeps it so
\* except two: the index reset that ends clearCache and the index repair of
\* a lookup whose read found nothing or failed.
C1_UnderApproximationOnlyByResetOrRepair ==
    [][(/\ isInitialDataLoaded
        /\ Covered
        /\ ~IndexResetStep
        /\ ~(\E t \in Tasks : MissResumeStep(t)))
       => Covered']_vars

\* Two stored entries, both indexed, nothing in flight.
C1_Witness ==
    /\ isInitialDataLoaded
    /\ Cardinality(StoredCacheKeys) = 2
    /\ StoredCacheKeys \subseteq IndexedKeys
    /\ \A t \in Tasks : req[t].pc = "idle"
    /\ clr.pc = "idle"
    /\ started = 1

\* C4: when the read of a lookup returns nothing or fails, the lookup
\* returns absent (handleDefine goes on to fetch and displays nothing) and
\* the index loses exactly the looked-up key, its other entries unchanged.
C4_MissRepairsIndex ==
    [][\A t \in Tasks :
          MissResumeStep(t) =>
             /\ req'[t].pc = "fetching"
             /\ definitionResult' = definitionResult
             /\ DOMAIN definitionsCacheIndex' = IndexedKeys \ {CacheKeyOf(req[t].params)}
             /\ \A k \in DOMAIN definitionsCacheIndex' :
                   definitionsCacheIndex'[k] = definitionsCacheIndex[k]]_vars

\* A read has returned nothing for a key that is in the index beside another.
C4_Witness ==
    \E t \in Tasks :
       /\ req[t].pc = "read"
       /\ req[t].got.kind = "null"
       /\ CacheKeyOf(req[t].params) \in IndexedKeys
       /\ Cardinality(IndexedKeys) = 2

\* C5 as stated: with no clear in flight, a lookup of a key that is indexed
\* and stored reads the stored entry and returns it with cacheHit = true.
C5_LookupAfterStoreReturnsEntry ==
    [][\A t \in Tasks :
          /\ (/\ req[t].pc = "reading"
              /\ req'[t].pc = "read"
              /\ CacheKeyOf(req[t].params) \in IndexedKeys
              /\ CacheKeyOf(req[t].params) \in StoredCacheKeys
              /\ clr.pc = "idle")
             => /\ req'[t].got.kind = "data"
                /\ req'[t].got.data = asyncStorage[CacheKeyOf(req[t].params)]
          /\ (req[t].pc = "read" /\ req[t].got.kind = "data" /\ req'[t] # req[t])
             => definitionResult' = Obj(Spread(req[t].got.data, "cacheHit", Bool(TRUE)))]_vars

\* A stored cache entry is a fetched result r of a request with that key, as
\* handleDefine built it (cacheHit = false), plus savedAt.
EntryIsSavedResult(k) ==
    LET e == asyncStorage[k]
    IN  /\ DOMAIN e = {"word", "result", "actualLength", "status", "config",
                       "requestedLength", "cacheHit", "savedAt"}
        /\ e.cacheHit = Bool(FALSE)
        /\ e.savedAt.t = "number"
        /\ \E c \in ValidCalls :
              /\ c.cacheKey = k
              /\ e.requestedLength = ParseInt(Get(c.requestParams, LENGTH))
              /\ \E r \in ServiceBodies(ApiRequestBody(c.requestParams)) :
                    \A f \in DOMAIN r : e[f] = r[f]

\* C5, amended: after a successful store(p, r) followed by lookup(p') with
\* the same normalized parameters, with no intervening clear and no failed
\* or empty store read for that key in between or in the lookup itself, the
\* lookup returns r's fields plus savedAt, with cacheHit = true although r
\* was stored with cacheHit = false.  Step by step: what is stored under a
\* key is such an r plus savedAt; a successful store puts the key in the
\* index, where it stays until clearCache ends or a read finds nothing or
\* fails; a lookup of an indexed key reads the store; a read that does not
\* fail returns what is stored; and the lookup returns what was read with
\* cacheHit = true.
C5_LookupReturnsEntryAbsentReadFailure ==
    /\ [](\A k \in StoredCacheKeys : EntryIsSavedResult(k))
    /\ [][\A t \in Tasks :
             /\ (req[t].pc = "written" /\ req[t].ok /\ req'[t] # req[t])
                => CacheKeyOf(req[t].params) \in DOMAIN definitionsCacheIndex'
             /\ (req[t].pc = "idle" /\ req'[t].pc # "idle"
                 /\ CacheKeyOf(req'[t].params) \in IndexedKeys)
                => req'[t].pc = "reading"
             /\ (req[t].pc = "reading" /\ req'[t].pc = "read"
                 /\ req'[t].got.kind # "throw"
                 /\ CacheKeyOf(req[t].params) \in StoredCacheKeys)
                => /\ req'[t].got.kind = "data"
                   /\ req'[t].got.data = asyncStorage[CacheKeyOf(req[t].params)]
             /\ (req[t].pc = "read" /\ req[t].got.kind = "data" /\ req'[t] # req[t])
                => /\ req'[t].pc = "idle"
                   /\ definitionResult'.t = "object"
                   /\ DOMAIN definitionResult'.o = DOMAIN req[t].got.data
                   /\ definitionResult'.o.cacheHit = Bool(TRUE)
                   /\ \A f \in (DOMAIN req[t].got.data) \ {"cacheHit"} :
                         definitionResult'.o[f] = req[t].got.data[f]]_vars
    /\ [][(isInitialDataLoaded /\ ~IndexResetStep /\ ~(\E t \in Tasks : MissResumeStep(t)))
          => IndexedKeys \subseteq DOMAIN definitionsCacheIndex']_vars

\* A lookup has read the entry that a request with another spelling of the
\* same parameters stored.
C5_Witness ==
    \E t \in Tasks :
       /\ req[t].pc = "read"
       /\ req[t].got.kind = "data"
       /\ req[t].got.data.word # Get(req[t].params, WORD)
       /\ started = 2

\* C6: a saveToCache whose write failed leaves the index exactly as it was,
\* and a lookup of a key that is not in the index returns absent: handleDefine
\* goes straight on to fetch.
C6_FailedWriteLeavesIndex ==
    [][\A t \in Tasks :
          /\ (req[t].pc = "written" /\ ~req[t].ok /\ req'[t] # req[t])
             => definitionsCacheIndex' = definitionsCacheIndex
          /\ (req[t].pc = "idle" /\ req'[t].pc # "idle"
              /\ CacheKeyOf(req'[t].params) \notin IndexedKeys)
             => req'[t].pc = "fetching"]_vars

\* After a failed write of the only request so far, a second request for the
\* same word found nothing in the index and is fetching.
C6_Witness ==
    \E t \in Tasks :
       /\ toast = MsgSaveFailed
       /\ StoredCacheKeys = {}
       /\ IndexedKeys = {}
       /\ started = 2
       /\ req[t].pc = "fetching"
       /\ Len(history) = 1
       /\ history[1].word = Get(req[t].params, WORD)

\* C7: the step that ends clearCache leaves the index empty, whether the bulk
\* removal succeeded, failed or removed only some of the keys.
C7_ClearEmptiesIndex ==
    [][IndexResetStep => DOMAIN definitionsCacheIndex' = {}]_vars

\* clearCache has ended after a failed removal: entries remain in the store,
\* the index is empty.
C7_Witness ==
    /\ clr.pc = "idle"
    /\ toast = MsgClearFailed
    /\ StoredCacheKeys # {}
    /\ IndexedKeys = {}

\* ------------------------------------------------------------------------
\* generateCacheKey on its own (specification SpecKey)
\* ------------------------------------------------------------------------
FieldNames == <<WORD, LENGTH, TONE, CONTEXT, LANG>>

\* The object literal with the given property values in the given order of
\* names, a property whose value is undefined being left out.
ObjectOf(names, value) ==
    LET all == [i \in 1..Len(names) |-> <<names[i], value[names[i]]>>]
    IN  SelectSeq(all, LAMBDA pr : pr[2] # Undef)

Reverse(seq) == [i \in 1..Len(seq) |-> seq[Len(seq) + 1 - i]]

\* Property values a caller of generateCacheKey may pass (undefined: absent).
KeyWords == {Undef, Str(<<"a">>), Str(<<" ", "A">>)}

KeyLengths == {Undef, Num(0), Num(7), Str(<<"7">>), Str(<<"x">>)}

KeyTones == {Undef, Str(<<>>), Str(NEUTRAL), Str(<<"F">>)}

KeyContexts == {Undef, Str(<<"N", "O", "N", "E">>)}

KeyLangs == {Undef, Str(AUTO)}

KeyValues ==
    {[n \in {WORD, LENGTH, TONE, CONTEXT, LANG} |->
        CASE n = WORD -> w [] n = LENGTH -> l [] n = TONE -> t
          [] n = CONTEXT -> c [] OTHER -> g] :
       w \in KeyWords, l \in KeyLengths, t \in KeyTones, c \in KeyContexts, g \in KeyLangs}

\* Params objects, their properties in the order word..lang and in the
\* opposite order.
ForwardParams == {ObjectOf(FieldNames, v) : v \in KeyValues}

BackwardParams == {ObjectOf(Reverse(FieldNames), v) : v \in KeyValues}

\* generateCacheKey on each of these params objects.
KeyTable == {[params |-> q, key |-> generateCacheKey(q)] : q \in ForwardParams \cup BackwardParams}

KeyOf(params) == (CHOOSE e \in KeyTable : e.params = params).key

\* Two params objects await their keys.
InitKey ==
    /\ definitionsCacheIndex = EmptyIndex
    /\ asyncStorage = EmptyIndex
    /\ isInitialDataLoaded = TRUE
    /\ history = <<>>
    /\ definitionResult = Null
    /\ isLoading = FALSE
    /\ error = Null
    /\ toast = ""
    /\ now = 1
    /\ req = [t \in Tasks |-> IdleReq]
    /\ clr = IdleClr
    /\ started = 0
    /\ keyIn \in ForwardParams \X BackwardParams
    /\ keyOut = <<>>
    /\ recorded = 0
    /\ favorites = <<>>
    /\ quizList = <<>>
    /\ rendered = [favorites |-> <<>>, quizList |-> <<>>]
    /\ saveEffect = NoSaves

\* generateCacheKey(keyIn[1]) and generateCacheKey(keyIn[2])
DeriveKeys ==
    /\ keyOut = <<>>
    /\ keyOut' = <<KeyOf(keyIn[1]), KeyOf(keyIn[2])>>
    /\ UNCHANGED <<definitionsCacheIndex, asyncStorage, isInitialDataLoaded, history,
                   uiVars, now, req, clr, started, keyIn, recorded, listVars, saveEffect>>

NextKey == DeriveKeys

SpecKey == InitKey /\ [][NextKey]_vars

\* The normalized form the specification states for a params object: word
\* trimmed and lower-cased; length as an integer, 0 when absent or not an
\* integer; tone, context and lang lower-cased, "neutral", "none" and "auto"
\* when absent or empty.
StatedLength(v) ==
    IF v = Undef THEN 0
    ELSE IF IsNum(v) THEN v.n
    ELSE IF v.s # <<>> /\ \A i \in 1..Len(v.s) : v.s[i] \in {DigitChars[j] : j \in 1..10}
         THEN DigitsValue(v.s, 0)
         ELSE 0

StatedText(v, default) ==
    IF v = Undef \/ v.s = <<>> THEN default ELSE ToLowerCase(v.s)

StatedNormalForm(params) ==
    [word |-> IF Get(params, WORD) = Undef THEN <<>>
              ELSE ToLowerCase(Trim(Get(params, WORD).s)),
     length |-> StatedLength(Get(params, LENGTH)),
     tone |-> StatedText(Get(params, TONE), NEUTRAL),
     context |-> StatedText(Get(params, CONTEXT), NONE),
     lang |-> StatedText(Get(params, LANG), AUTO)]

\* C2: the keys of two params objects are equal if and only if their
\* normalized forms are equal, whatever the order of their properties.
C2_KeysEqualIffNormalFormsEqual ==
    keyOut # <<>> =>
       ((keyOut[1] = keyOut[2]) <=> (StatedNormalForm(keyIn[1]) = StatedNormalForm(keyIn[2])))

\* The params object with the stated defaults written out: length 0 when
\* absent or not an integer, tone "neutral", context "none" and lang "auto"
\* when absent or empty.
WithStatedDefaults(params) ==
    LET nf == StatedNormalForm(params)
        tx(name, default) ==
           IF Get(params, name) = Undef \/ Get(params, name).s = <<>>
           THEN Str(default) ELSE Get(params, name)
    IN  ObjectOf(FieldNames,
           [n \in {WORD, LENGTH, TONE, CONTEXT, LANG} |->
              CASE n = WORD -> Get(params, WORD)
                [] n = LENGTH -> Num(nf.length)
                [] n = TONE -> tx(TONE, NEUTRAL)
                [] n = CONTEXT -> tx(CONTEXT, NONE)
                [] OTHER -> tx(LANG, AUTO)])

\* C3: generateCacheKey yields a key for every params object, and that key
\* is the key of the same params with the stated defaults written out.
C3_KeyAppliesStatedDefaults ==
    keyOut # <<>> =>
       /\ IsCacheKey(keyOut[1])
       /\ keyOut[1] = generateCacheKey(WithStatedDefaults(keyIn[1]))

\* ------------------------------------------------------------------------
\* The History Ledger (specification SpecHistory)
\* ------------------------------------------------------------------------
EN == <<"e", "n">>

OK == <<"o", "k">>

\* An item as handleDefine hands it to addToHistory.
HistoryItem(wordText, len) ==
    [word |-> Str(wordText), length |-> Num(len), tone |-> Str(NEUTRAL),
     context |-> Str(NONE), lang |-> Str(EN),
     result |-> [actualLength |-> Num(1), status |-> Str(OK), effectiveLang |-> Str(EN)]]

\* The history an earlier session left in the store: n items, the newest first,
\* for the words w1, w2, ... and, the oldest, for "B".
StoredHistory(n) ==
    [i \in 1..n |->
        Spread(HistoryItem(IF i = n THEN <<"B">> ELSE <<"w">> \o NumToString(i), 5),
               "timestamp", 0)]

\* AsyncStorage at process start, for the history: a snapshot of
\* HISTORY_MAX_ITEMS items.
HistoryStores == {[k \in {HISTORY_KEY} |-> StoredHistory(HISTORY_MAX_ITEMS)]}

InitHistory ==
    /\ InitApp
    /\ asyncStorage \in HistoryStores
    /\ keyIn = NoKeyIn
    /\ keyOut = <<>>
    /\ recorded = 0

\* The addToHistory callback.
AddToHistory(item) ==
    /\ isInitialDataLoaded
    /\ history' = addToHistory(history, item, now)
    /\ UNCHANGED <<definitionsCacheIndex, asyncStorage, isInitialDataLoaded, uiVars,
                   now, req, clr, started, keyIn, keyOut, listVars, saveEffect>>

\* Requests (each records its result), clearHistory and the clock, after the
\* initial load.
NextHistory ==
    \/ InitialLoad
    \/ ClearHistory
    \/ Tick
    \/ RequestStep("t1")

SpecHistory == InitHistory /\ [][NextHistory]_vars

\* C8: the history holds at most HISTORY_MAX_ITEMS items, after any sequence
\* of records, requests and clears from a loaded history of at most that many.
C8_HistoryAtMostMax == Len(history) <= HISTORY_MAX_ITEMS

\* Two records onto a full history have left it full, the new items first and
\* the two oldest stored ones dropped from its end.
C8_Witness ==
    /\ Len(history) = HISTORY_MAX_ITEMS
    /\ history[1].timestamp = now
    /\ history[2].timestamp > 0
    /\ history[HISTORY_MAX_ITEMS].word = Str(<<"w", "4", "8">>)

\* The identity tuple of a history item: word, length, tone, context, lang,
\* the strings without regard to case, a missing one as the empty string.
IdentityTuple(h) ==
    <<ToLowerCase(h.word.s), h.length,
      IF h.tone = Undef THEN <<>> ELSE ToLowerCase(h.tone.s),
      IF h.context = Undef THEN <<>> ELSE ToLowerCase(h.context.s),
      IF h.lang = Undef THEN <<>> ELSE ToLowerCase(h.lang.s)>>

PositionsOf(tuple, hist) == {i \in 1..Len(hist) : IdentityTuple(hist[i]) = tuple}

\* A step that records an item: the history changes other than by being
\* loaded or emptied.
RecordStep ==
    /\ history' # history
    /\ history' # <<>>
    /\ isInitialDataLoaded

MaxRecords == 52

\* The i-th search of the sequence: the searches differ in their word or in
\* their length.
FreshItem(i) == HistoryItem(<<"w">> \o NumToString(i \div 2), 5 + (i % 2))

InitChain ==
    /\ InitApp
    /\ asyncStorage = EmptyIndex
    /\ keyIn = NoKeyIn
    /\ keyOut = <<>>
    /\ recorded = 0

\* The next addToHistory call of the sequence.
RecordFresh ==
    /\ recorded < MaxRecords
    /\ AddToHistory(FreshItem(recorded + 1))
    /\ recorded' = recorded + 1

NextChain ==
    \/ InitialLoad
    \/ RecordFresh
    \/ Tick

SpecChain == InitChain /\ [][NextChain]_vars

\* C10: after more than HISTORY_MAX_ITEMS records of pairwise distinct
\* searches the history has exactly HISTORY_MAX_ITEMS items, the most
\* recently recorded ones, the newest first.
C10_KeepsMostRecent ==
    recorded > HISTORY_MAX_ITEMS =>
       /\ Len(history) = HISTORY_MAX_ITEMS
       /\ \A i \in 1..HISTORY_MAX_ITEMS :
             IdentityTuple(history[i]) = IdentityTuple(FreshItem(recorded - i + 1))

\* All MaxRecords searches have been recorded: the first two are gone.
C10_Witness ==
    /\ recorded = MaxRecords
    /\ recorded > HISTORY_MAX_ITEMS + 1
    /\ Len(history) = HISTORY_MAX_ITEMS
    /\ history[HISTORY_MAX_ITEMS].word = FreshItem(MaxRecords - HISTORY_MAX_ITEMS + 1).word
    /\ history[1].word = FreshItem(MaxRecords).word

\* ------------------------------------------------------------------------
\* Favorites and the quiz list (specification SpecLists)
\* ------------------------------------------------------------------------
\* Lists hold at most this many entries.
MaxListed == 2

\* The words handed to addFavorite, removeFavorite and addToQuiz.
ListWords == {Undef, Str(<<>>), Str(<<" ", "A">>), Str(<<"a">>)}

\* !wordToAdd || !wordToAdd.trim()
BlankWord(w) == ~Truthy(w) \/ Trim(w.s) = <<>>

\* list.some(entry => entry.word.toLowerCase() === trimmedWord.toLowerCase())
SomeWord(list, trimmedWord) ==
    \E i \in 1..Len(list) : ToLowerCase(list[i].word) = ToLowerCase(trimmedWord)

\* What the list callbacks leave alone.
notLists == <<definitionsCacheIndex, asyncStorage, isInitialDataLoaded, history,
              definitionResult, isLoading, error, now, req, clr, started,
              keyIn, keyOut, recorded, saveEffect>>

\* addFavorite(wordToAdd): the membership test reads the favorites the
\* callback closed over, the update prepends to the current favorites. Of a
\* toast the template is kept, not the interpolated word.
AddFavorite(wordToAdd) ==
    /\ isInitialDataLoaded
    /\ Len(favorites) < MaxListed
    /\ IF BlankWord(wordToAdd)
       THEN UNCHANGED <<favorites, toast>>
       ELSE LET trimmedWord == Trim(wordToAdd.s)
            IN  IF ~SomeWord(rendered.favorites, trimmedWord)
                THEN /\ favorites' = <<[word |-> trimmedWord, timestamp |-> now]>>
                                         \o favorites
                     /\ toast' = "Favorited: ${trimmedWord}"
                ELSE /\ toast' = "${trimmedWord} is already in favorites."
                     /\ UNCHANGED favorites
    /\ UNCHANGED <<quizList, rendered, notLists>>

\* A variant of RemoveFavorite that compares the words as they are spelled.
RemoveFavorite_CaseSensitive(wordToRemove) ==
    /\ isInitialDataLoaded
    /\ IF BlankWord(wordToRemove)
       THEN UNCHANGED <<favorites, toast>>
       ELSE LET trimmedWord == Trim(wordToRemove.s)
                keep(fav) == fav.word # trimmedWord
            IN  /\ favorites' = SelectSeq(favorites, keep)
                /\ toast' = "Unfavorited: ${trimmedWord}"
    /\ UNCHANGED <<quizList, rendered, notLists>>

RemoveFavorite(wordToRemove) ==
    /\ isInitialDataLoaded
    /\ IF BlankWord(wordToRemove)
       THEN UNCHANGED <<favorites, toast>>
       ELSE LET trimmedWord == Trim(wordToRemove.s)
                keep(fav) == ToLowerCase(fav.word) # ToLowerCase(trimmedWord)
            IN  /\ favorites' = SelectSeq(favorites, keep)
                /\ toast' = "Unfavorited: ${trimmedWord}"
    /\ UNCHANGED <<quizList, rendered, notLists>>

\* addToQuiz(wordToAdd): as addFavorite; the id is Date.now().toString().
AddToQuiz(wordToAdd) ==
    /\ isInitialDataLoaded
    /\ Len(quizList) < MaxListed
    /\ IF BlankWord(wordToAdd)
       THEN UNCHANGED <<quizList, toast>>
       ELSE LET trimmedWord == Trim(wordToAdd.s)
                newItem == [word |-> trimmedWord, id |-> NumToString(now)]
            IN  IF ~SomeWord(rendered.quizList, trimmedWord)
                THEN /\ quizList' = <<newItem>> \o quizList
                     /\ toast' = "Added to Quiz List: ${trimmedWord}"
                ELSE /\ toast' = "${trimmedWord} is already in the Quiz list."
                     /\ UNCHANGED quizList
    /\ UNCHANGED <<favorites, rendered, notLists>>

RemoveFromQuiz(idToRemove) ==
    /\ isInitialDataLoaded
    /\ LET keep(item) == item.id # idToRemove
       IN  quizList' = SelectSeq(quizList, keep)
    /\ toast' = "Removed from Quiz List: ${word}"
    /\ UNCHANGED <<favorites, rendered, notLists>>

\* React renders again after a state update: the callbacks are recreated
\* over the current lists.
Render ==
    /\ rendered # [favorites |-> favorites, quizList |-> quizList]
    /\ rendered' = [favorites |-> favorites, quizList |-> quizList]
    /\ UNCHANGED <<favorites, quizList, toast, notLists>>

NextLists ==
    \/ InitialLoad
    \/ \E w \in ListWords : AddFavorite(w)
    \/ \E w \in ListWords : RemoveFavorite(w)
    \/ \E w \in ListWords : AddToQuiz(w)
    \/ \E i \in 1..Len(rendered.quizList) : RemoveFromQuiz(rendered.quizList[i].id)
    \/ Render

SpecLists == Init /\ [][NextLists]_vars

\* C11: neither the favorites nor the quiz list ever holds two entries whose
\* words are equal ignoring case.
NoDuplicateWords(list) ==
    \A i, j \in 1..Len(list) :
        ToLowerCase(list[i].word) = ToLowerCase(list[j].word) => i = j

C11_NoCaseInsensitiveDuplicates ==
    NoDuplicateWords(favorites) /\ NoDuplicateWords(quizList)

\* ------------------------------------------------------------------------
\* Validation (specification SpecSubmit)
\* ------------------------------------------------------------------------
\* The requests of one invocation, and calls that validateInputs rejects
\* while it is under way.
NextSubmit ==
    \/ InitialLoad
    \/ RequestStep("t1")
    \/ \E call \in Calls \ ValidCalls : HandleDefineStart("t2", call)

SpecSubmit == Init /\ [][NextSubmit]_vars

\* The word of the call is empty after trimming, or its length does not
\* parse to an integer in [1, MAX_REQUESTED_LENGTH].
StatedInvalid(call) ==
    LET numLength == ParseInt(Get(call.requestParams, LENGTH))
    IN  \/ Trim(Get(call.requestParams, WORD).s) = <<>>
        \/ ~IsNum(numLength)
        \/ ~(numLength.n \in 1..MAX_REQUESTED_LENGTH)

\* C12: a handleDefine call whose word is empty after trimming or whose
\* length does not parse to an integer in [1, MAX_REQUESTED_LENGTH] sets a
\* validation message as the error and the toast and changes nothing else:
\* no invocation starts a lookup or a fetch, and the index, the store, the
\* history, the favorites, the quiz list and the displayed result stay.
C12_InvalidRequestOnlyReports ==
    [][\A t \in Tasks, call \in Calls :
          StatedInvalid(call) /\ HandleDefineStart(t, call)
          => /\ error' \in {Str(MsgNoWord), Str(MsgBadLength)}
             /\ toast' = error'.s
             /\ UNCHANGED <<definitionsCacheIndex, asyncStorage, isInitialDataLoaded,
                            history, definitionResult, isLoading, now, req, clr,
                            rest>>]_vars

\* A length was rejected while a result was displayed and recorded.
C12_Witness ==
    /\ error = Str(MsgBadLength)
    /\ definitionResult # Null
    /\ history # <<>>

\* ------------------------------------------------------------------------
\* Properties of the request orchestration
\* ------------------------------------------------------------------------
\* The lookup of invocation t returns in this step.
LookupReturns(t) == req[t].pc = "read" /\ req'[t] # req[t]

\* The fetch of invocation t settles in this step, and not with a result.
FetchFailed(t) == req[t].pc = "fetching" /\ req'[t].pc \notin {"fetching", "writing"}

\* No invocation issues a fetch in this step.
NoFetchIssued ==
    \A u \in Tasks : req'[u].pc = "fetching" => req[u].pc = "fetching"

\* C13: when the lookup of a valid request returns an entry, the request
\* ends without a call to the Define Service, the entry is displayed with
\* cacheHit = true, and the history then holds exactly one item of the
\* entry's identity, the newest, built from the entry's word,
\* requestedLength and config.
C13_CacheHitServesEntry ==
    [][\A t \in Tasks :
          LookupReturns(t) /\ req[t].got.kind = "data"
          => LET entry == Obj(req[t].got.data)
                 shown == definitionResult'
                 item == history'[1]
             IN  /\ NoFetchIssued
                 /\ req'[t].pc = "idle"
                 /\ Field(shown, "cacheHit") = Bool(TRUE)
                 /\ \A f \in DOMAIN entry.o \ {"cacheHit"} : Field(shown, f) = entry.o[f]
                 /\ history' # <<>>
                 /\ item.word = Field(entry, "word")
                 /\ item.length = Field(entry, "requestedLength")
                 /\ item.tone = Field(Field(entry, "config"), "tone")
                 /\ item.context = Field(Field(entry, "config"), "context")
                 /\ item.lang = Field(Field(entry, "config"), "effectiveLang")
                 /\ PositionsOf(IdentityTuple(item), history') = {1}]_vars

\* A cache hit is on display, recorded in a full history.
C13_Witness ==
    /\ definitionResult # Null
    /\ Field(definitionResult, "cacheHit") = Bool(TRUE)
    /\ toast = "Definition loaded from local cache."
    /\ Len(history) = HISTORY_MAX_ITEMS

C16_LastCompletedStaysDisplayed ==
    [][\A t \in Tasks :
          FetchFailed(t) /\ definitionResult # Null
          => definitionResult' = definitionResult]_vars

\* The fetch of invocation t settles with a result in this step.
FetchSucceeded(t) == req[t].pc = "fetching" /\ req'[t].pc = "writing"

\* The store write of invocation t fails in this step.
WriteFailed(t) == req[t].pc = "writing" /\ req'[t].pc = "written" /\ ~req'[t].ok

\* Invocation t ends in this step, after a store write that failed.
EndsAfterFailedWrite(t) == req[t].pc = "written" /\ ~req[t].ok /\ req'[t].pc = "idle"

\* C17: when the fetch of a request succeeds but its cache write fails, the
\* request still completes: the fetch displays and records the result, the
\* failed write and the end of the request leave the displayed result, the
\* history, the error and the index as they are, and only the notice that
\* the definition could not be saved locally is raised.
C17_FailedWriteStillCompletes ==
    [][\A t \in Tasks :
          /\ FetchSucceeded(t)
             => /\ definitionResult' # Null
                /\ Field(definitionResult', "cacheHit") = Bool(FALSE)
                /\ Field(definitionResult', "word") = Get(req[t].params, WORD)
                /\ history' # <<>>
                /\ history'[1].word = Field(definitionResult', "word")
                /\ history'[1].length = Field(definitionResult', "requestedLength")
                /\ UNCHANGED error
          /\ WriteFailed(t)
             => UNCHANGED <<definitionResult, history, error, toast,
                            definitionsCacheIndex, asyncStorage>>
          /\ EndsAfterFailedWrite(t)
             => /\ UNCHANGED <<definitionResult, history, error,
                               definitionsCacheIndex, asyncStorage>>
                /\ toast' = MsgSaveFailed
                /\ isLoading' = FALSE]_vars

\* A request has ended after a failed write: its result is on display and
\* recorded, no error is set, and the index does not hold its key.
C17_Witness ==
    /\ toast = MsgSaveFailed
    /\ \A t \in Tasks : req[t].pc = "idle"
    /\ definitionResult # Null
    /\ Field(definitionResult, "cacheHit") = Bool(FALSE)
    /\ error = Null
    /\ history # <<>>
    /\ history[1].word = Field(definitionResult, "word")
    /\ DOMAIN definitionsCacheIndex = {}

\* Invocation t passes validation and starts its lookup in this step.
LookupStarts(t) == req[t].pc = "idle" /\ req'[t].pc # "idle"

\* C18: the lookup for a key that is not in the in-memory index returns
\* absent (the request goes on to the fetch) without a read of the store
\* under way and without a change of the index.
C18_MissInIndexReadsNothing ==
    [][\A t \in Tasks :
          /\ LookupStarts(t)
          /\ CacheKeyOf(req'[t].params) \notin DOMAIN definitionsCacheIndex
          => /\ req'[t].pc = "fetching"
             /\ UNCHANGED <<definitionsCacheIndex, asyncStorage>>]_vars

\* The first request of a first run is at its fetch: nothing is stored and
\* nothing was read.
C18_Witness ==
    /\ started = 1
    /\ \E t \in Tasks : req[t].pc = "fetching"
    /\ DOMAIN asyncStorage = {}
    /\ DOMAIN definitionsCacheIndex = {}

\* Where a request run is: validated and looking up (1, 2), fetching (3),
\* writing to the store (4, 5); the index update is the step that leaves 5.
PcRank(pc) ==
    CASE pc = "idle" -> 0
      [] pc = "reading" -> 1
      [] pc = "read" -> 2
      [] pc = "fetching" -> 3
      [] pc = "writing" -> 4
      [] pc = "written" -> 5

\* C19: the index gains a key only in the step in which a saveToCache call
\* resumes after its store write of that key's entry has succeeded (or, when
\* the initial load restores the persisted index, a key whose entry an
\* earlier session wrote and the store holds); and a request run
\* goes through validation, lookup, fetch, store write and index update in
\* this order: only validated params are looked up, and a run moves forward
\* or ends.
C19_IndexUpdateAfterWrite ==
    [][/\ \A k \in DOMAIN definitionsCacheIndex' \ DOMAIN definitionsCacheIndex :
             IF isInitialDataLoaded
             THEN \E t \in Tasks :
                     /\ req[t].pc = "written"
                     /\ req[t].ok
                     /\ req'[t].pc = "idle"
                     /\ k = CacheKeyOf(req[t].params)
             ELSE k \in DOMAIN asyncStorage
       /\ \A t \in Tasks :
             /\ req'[t].pc = "written" /\ req[t].pc # "written" /\ req'[t].ok
                => LET k == CacheKeyOf(req[t].params)
                   IN  k \in DOMAIN asyncStorage' /\ asyncStorage'[k] = req[t].data
             /\ req'[t].pc # req[t].pc
                => req'[t].pc = "idle" \/ PcRank(req'[t].pc) > PcRank(req[t].pc)
             /\ LookupStarts(t)
                => ~StatedInvalid([requestParams |-> req'[t].params])]_vars

\* Requests of a first run have ended and the index holds a key: the key
\* was gained, and its entry is stored.
C19_Witness ==
    /\ CACHE_INDEX_KEY \notin DOMAIN asyncStorage
    /\ \A t \in Tasks : req[t].pc = "idle"
    /\ \E k \in DOMAIN definitionsCacheIndex : k \in DOMAIN asyncStorage

\* C20: a request that passes validation clears the displayed result before
\* its lookup or fetch is under way, and a result is put on display only by
\* a request that is in flight at that step: while a request is in flight
\* the display never shows the result of a request that had settled before
\* it started.
C20_StartClearsDisplay ==
    [][/\ \A t \in Tasks : LookupStarts(t) => definitionResult' = Null
       /\ definitionResult' # definitionResult /\ definitionResult' # Null
          => \E u \in Tasks :
                \/ LookupReturns(u) /\ req[u].got.kind = "data"
                \/ FetchSucceeded(u)]_vars

\* A request is at its fetch with nothing on display, after an earlier
\* request had displayed and recorded its result.
C20_Witness ==
    /\ started = 2
    /\ req["t2"].pc = "fetching"
    /\ req["t1"].pc = "idle"
    /\ definitionResult = Null
    /\ error = Null
    /\ history # <<>>

\* ------------------------------------------------------------------------
\* The same request twice (specification SpecTwice)
\* ------------------------------------------------------------------------
\* First run: empty cache and history.
InitTwice ==
    /\ InitApp
    /\ asyncStorage = EmptyIndex
    /\ keyIn = NoKeyIn
    /\ keyOut = <<>>
    /\ recorded = 0

\* One request after the other; a later request is one whose key the index
\* holds, that is the request an earlier run fetched and saved.
NextTwice ==
    \/ InitialLoad
    \/ Tick
    \/ \E call \in ValidCalls :
          /\ started = 0 \/ InIndex(definitionsCacheIndex, call.cacheKey)
          /\ HandleDefineStart("t1", call)
    \/ StoreRead("t1")
    \/ LookupResume("t1")
    \/ FetchSucceeds("t1")
    \/ FetchFails("t1")
    \/ StoreWrite("t1")
    \/ SaveResume("t1")

SpecTwice == InitTwice /\ [][NextTwice]_vars

\* The first run is a miss: it goes to the Define Service without a store
\* read, and once it has displayed its result there is one history item;
\* once it has saved it there is one cache entry.
FirstRunIsMiss ==
    started = 1
    => /\ req["t1"].pc \in {"fetching", "writing", "written", "idle"}
       /\ req["t1"].pc \in {"writing", "written"} => Len(history) = 1
       /\ DOMAIN definitionsCacheIndex # {}
           => /\ Len(history) = 1
              /\ Cardinality(StoredCacheKeys) = 1
              /\ StoredCacheKeys = DOMAIN definitionsCacheIndex

\* The second run ends at its lookup: no fetch is issued, and the history is
\* the one item of the request, stamped with the time of this run.
SecondRunIsHit ==
    /\ NoFetchIssued
    /\ req'["t1"].pc = "idle"
    /\ Len(history') = 1
    /\ history'[1].timestamp = now
    /\ history'[1].timestamp >= history[1].timestamp
    /\ IdentityTuple(history'[1]) = IdentityTuple(history[1])

\* C14: the same valid request twice in a row from an empty cache and
\* history, the second after the first has completed with its cache write:
\* the first run is a miss that leaves one history item and one cache entry,
\* the second run is a hit without a network call that leaves one history
\* item for the identity, with the newer timestamp.
C14_SecondRunHits ==
    /\ []FirstRunIsMiss
    /\ [][started = 2 /\ LookupReturns("t1") => SecondRunIsHit]_vars

\* C14, unless the store read of the second run fails.
C14_SecondRunHitsUnlessReadFails ==
    /\ []FirstRunIsMiss
    /\ [][started = 2 /\ LookupReturns("t1") /\ req["t1"].got.kind # "throw"
          => SecondRunIsHit]_vars

\* The second run has ended as a hit, later than the first was recorded.
C14_Witness ==
    /\ started = 2
    /\ req["t1"].pc = "idle"
    /\ toast = "Definition loaded from local cache."
    /\ Len(history) = 1
    /\ history[1].timestamp = 2
    /\ \E k \in StoredCacheKeys : asyncStorage[k].savedAt = Num(1)

\* ------------------------------------------------------------------------
\* Two requests for one cache key (specification SpecPair)
\* ------------------------------------------------------------------------
\* The requests whose key is that of the word "a" at length 5: the form
\* submit of " A" and the replay of "a".
PairCalls ==
    {c \in ValidCalls : ToLowerCase(Get(c.requestParams, WORD).s) = <<"a">>}

\* Two invocations, interleaved at their suspension points, on a first run.
NextPair ==
    \/ InitialLoad
    \/ \E t \in Tasks :
          \/ \E call \in PairCalls : HandleDefineStart(t, call)
          \/ StoreRead(t)
          \/ LookupResume(t)
          \/ FetchSucceeds(t)
          \/ FetchFails(t)
          \/ StoreWrite(t)
          \/ SaveResume(t)

SpecPair == InitTwice /\ [][NextPair]_vars

\* Both invocations have a fetch for the same key under way.
BothFetching ==
    /\ \A t \in Tasks : req[t].pc = "fetching"
    /\ CacheKeyOf(req["t1"].params) = CacheKeyOf(req["t2"].params)

\* Two requests have run and ended, and neither a fetch nor a store write of
\* theirs failed: no error is set and no notice was raised.
BothCompleted ==
    /\ started = 2
    /\ \A t \in Tasks : req[t].pc = "idle"
    /\ error = Null
    /\ toast = ""

\* C21: two concurrent requests with the same cache key that both observe a
\* miss call the Define Service independently (the second starts its own
\* fetch while the first's is under way), and once both have completed
\* successfully there is one index entry and one stored entry for the key
\* and one history item for the identity tuple.
C21_SameKeyFetchedTwiceStoredOnce ==
    /\ [][\A t, u \in Tasks :
             /\ LookupStarts(t)
             /\ req[u].pc = "fetching"
             /\ CacheKeyOf(req'[t].params) = CacheKeyOf(req[u].params)
             /\ CacheKeyOf(req[u].params) \notin DOMAIN definitionsCacheIndex
             => req'[t].pc = "fetching" /\ req'[u] = req[u]]_vars
    /\ [](BothCompleted
           => /\ Cardinality(DOMAIN definitionsCacheIndex) = 1
              /\ StoredCacheKeys = DOMAIN definitionsCacheIndex
              /\ Len(history) = 1)

\* Both fetches were under way at once for one key, in two spellings.
C21_Witness ==
    /\ BothFetching
    /\ req["t1"].params # req["t2"].params

\* ------------------------------------------------------------------------
\* Removal from the favorites and the quiz list (specification SpecRemove)
\* ------------------------------------------------------------------------
\* isFavorite(wordToCheck), over the favorites it closes over
isFavorite(favs, wordToCheck) ==
    IF BlankWord(wordToCheck) THEN FALSE ELSE SomeWord(favs, Trim(wordToCheck.s))

\* Snapshots an earlier session left: favorites that hold "A" and "a", quiz
\* items of which two were added at the same clock value.
StoredLists ==
    [k \in {FAVORITES_KEY, QUIZ_LIST_KEY} |->
        IF k = FAVORITES_KEY
        THEN << [word |-> <<"A">>, timestamp |-> 0],
                [word |-> <<"b">>, timestamp |-> 0],
                [word |-> <<"a">>, timestamp |-> 0] >>
        ELSE << [word |-> <<"c">>, id |-> <<"0">>],
                [word |-> <<"b">>, id |-> <<"-", "1">>],
                [word |-> <<"a">>, id |-> <<"0">>] >>]

InitRemove ==
    /\ InitApp
    /\ asyncStorage = StoredLists
    /\ keyIn = NoKeyIn
    /\ keyOut = <<>>
    /\ recorded = 0

NextRemove ==
    \/ InitialLoad
    \/ \E w \in ListWords \cup {Str(<<"B">>)} : RemoveFavorite(w)
    \/ \E i \in 1..Len(rendered.quizList) : RemoveFromQuiz(rendered.quizList[i].id)
    \/ \E w \in ListWords : AddFavorite(w)
    \/ \E w \in ListWords : AddToQuiz(w)
    \/ Render

SpecRemove == InitRemove /\ [][NextRemove]_vars

\* after is the entries of before at the positions kept, in their order.
KeepsInOrder(before, after, kept) ==
    /\ Len(after) = Cardinality(kept)
    /\ \A i \in kept : after[Cardinality({j \in kept : j <= i})] = before[i]

\* C22: removeFavorite(w) removes every favorite whose word equals w (taken
\* without surrounding white space) ignoring case and keeps the others in
\* their order, so that isFavorite is false afterwards for any casing of w;
\* removeFromQuiz(id) removes every quiz item with that id and keeps the
\* others in their order.
C22_RemoveFiltersByKey ==
    [][/\ \A w \in ListWords \cup {Str(<<"B">>)} :
             RemoveFavorite(w) /\ ~BlankWord(w)
             => LET others == {i \in 1..Len(favorites) :
                                 ToLowerCase(favorites[i].word) # ToLowerCase(Trim(w.s))}
                IN  /\ KeepsInOrder(favorites, favorites', others)
                    /\ ~isFavorite(favorites', Str(ToLowerCase(w.s)))
                    /\ ~isFavorite(favorites', Str(Trim(w.s)))
                    /\ \A v \in ListWords \cup {Str(<<"B">>), Str(<<"b">>)} :
                          ~BlankWord(v) /\ ToLowerCase(Trim(v.s)) = ToLowerCase(Trim(w.s))
                          => ~isFavorite(favorites', v)
       /\ \A i \in 1..Len(rendered.quizList) :
             LET idToRemove == rendered.quizList[i].id
                 others == {j \in 1..Len(quizList) : quizList[j].id # idToRemove}
             IN  RemoveFromQuiz(idToRemove)
                 => KeepsInOrder(quizList, quizList', others)]_vars

\* removeFavorite has removed both spellings of a word and removeFromQuiz
\* both items of one id; the other entries are left.
C22_Witness ==
    /\ Len(favorites) = 1
    /\ favorites[1].word = <<"b">>
    /\ Len(quizList) = 1
    /\ quizList[1].word = <<"b">>

\* ------------------------------------------------------------------------
\* The initial load of the collections (specification SpecLoad)
\* ------------------------------------------------------------------------
\* AsyncStorage as an earlier session left it: a cache entry and the
\* snapshots of the four collections.
StoredSession ==
    [k \in DOMAIN PriorSessionStore \cup DOMAIN StoredLists \cup {HISTORY_KEY} |->
        IF k \in DOMAIN PriorSessionStore THEN PriorSessionStore[k]
        ELSE IF k \in DOMAIN StoredLists THEN StoredLists[k]
        ELSE StoredHistory(2)]

InitLoad ==
    /\ InitApp
    /\ asyncStorage = StoredSession
    /\ keyIn = NoKeyIn
    /\ keyOut = <<>>
    /\ recorded = 0

\* The load, and then the list callbacks and clearHistory.
NextLoad ==
    \/ InitialLoad
    \/ ClearHistory
    \/ \E w \in ListWords : AddFavorite(w) \/ RemoveFavorite(w)
    \/ \E i \in 1..Len(rendered.quizList) : RemoveFromQuiz(rendered.quizList[i].id)
    \/ Render

SpecLoad == InitLoad /\ [][NextLoad]_vars

\* C23: whether or not the stored snapshot of a collection is read,
\* initialization completes: as long as the collections are not loaded the
\* load can settle, and when it settles the loaded flag is true, every
\* collection is its stored snapshot or, when that was not read, its empty
\* initial value, and neither an error nor a notice is set.
C23_LoadFailureFallsBackToEmpty ==
    /\ [](~isInitialDataLoaded => ENABLED InitialLoad)
    /\ [][~isInitialDataLoaded /\ isInitialDataLoaded'
          => /\ definitionsCacheIndex' \in {asyncStorage[CACHE_INDEX_KEY], EmptyIndex}
             /\ history' \in {asyncStorage[HISTORY_KEY], <<>>}
             /\ favorites' \in {asyncStorage[FAVORITES_KEY], <<>>}
             /\ quizList' \in {asyncStorage[QUIZ_LIST_KEY], <<>>}
             /\ UNCHANGED <<error, toast, asyncStorage>>]_vars

\* The load has settled with the index, history and favorites snapshots not
\* read and the quiz list read: no callback has run since.
C23_Witness ==
    /\ isInitialDataLoaded
    /\ toast = ""
    /\ error = Null
    /\ definitionsCacheIndex = EmptyIndex
    /\ history = <<>>
    /\ favorites = <<>>
    /\ quizList = asyncStorage[QUIZ_LIST_KEY]

\* ------------------------------------------------------------------------
\* The save effect of useSimplePersistentState (specifications SpecSave and
\* SpecSaveFair)
\* ------------------------------------------------------------------------
\* At most this many setItem calls of the save effects are in flight.
MaxPending == 2

\* The four hooks of AppProvider.
Hooks == {"favorites", "history", "quizList", "definitionsCacheIndex"}

\* The `key` argument of each hook.
StoreKeyOf(hook) ==
    CASE hook = "favorites" -> FAVORITES_KEY
      [] hook = "history" -> HISTORY_KEY
      [] hook = "quizList" -> QUIZ_LIST_KEY
      [] hook = "definitionsCacheIndex" -> CACHE_INDEX_KEY

\* The `st` of each hook.
Collections ==
    [favorites |-> favorites, history |-> history, quizList |-> quizList,
     definitionsCacheIndex |-> definitionsCacheIndex]

\* The fields of a history item that hold a JavaScript value of the request
\* or the response; the others (result, timestamp, id) are always defined.
ItemValueFields == {"word", "length", "tone", "context", "lang"}

\* JSON.parse(JSON.stringify(item)) of a history item: a field whose value is
\* undefined is not written, NaN comes back as null.
ItemRoundTrip(item) ==
    [f \in {g \in DOMAIN item : ~(g \in ItemValueFields /\ item[g].t = "undefined")} |->
        IF f \in ItemValueFields /\ item[f].t = "NaN" THEN Null ELSE item[f]]

\* JSON.parse(JSON.stringify(st)): what a later getItem of the snapshot
\* gives back. Favorites, quiz items and the index hold strings and numbers
\* only.
SnapshotOf(hook, st) ==
    IF hook = "history" THEN [i \in 1..Len(st) |-> ItemRoundTrip(st[i])] ELSE st

\* The save effect of a hook is due: its `ld` has become true, or its `st`
\* has changed since the effect last ran.
SaveDue(hook) ==
    /\ isInitialDataLoaded
    /\ hook \notin saveEffect.ran \/ Collections[hook] # saveEffect.st[hook]

\* A variant of RunSaveEffect whose effect depends on [key, ld] only.
RunSaveEffect_NotOnChange(hook) ==
    /\ isInitialDataLoaded
    /\ hook \notin saveEffect.ran
    /\ Len(saveEffect.pending) < MaxPending
    /\ saveEffect' = [ran |-> saveEffect.ran \cup {hook},
                      st |-> [saveEffect.st EXCEPT ![hook] = Collections[hook]],
                      pending |-> Append(saveEffect.pending,
                                         [hook |-> hook,
                                          value |-> SnapshotOf(hook, Collections[hook])]),
                      saveError |-> saveEffect.saveError]
    /\ UNCHANGED <<definitionsCacheIndex, asyncStorage, isInitialDataLoaded, history,
                   uiVars, now, req, clr, started, keyIn, keyOut, recorded, listVars>>

\* After a render, the save effect of a hook whose [key, st, ld] changed
\* runs: once `ld` is true it calls AsyncStorage.setItem(key, JSON.stringify(st)).
RunSaveEffect(hook) ==
    /\ SaveDue(hook)
    /\ Len(saveEffect.pending) < MaxPending
    /\ saveEffect' = [ran |-> saveEffect.ran \cup {hook},
                      st |-> [saveEffect.st EXCEPT ![hook] = Collections[hook]],
                      pending |-> Append(saveEffect.pending,
                                         [hook |-> hook,
                                          value |-> SnapshotOf(hook, Collections[hook])]),
                      saveError |-> saveEffect.saveError]
    /\ UNCHANGED <<definitionsCacheIndex, asyncStorage, isInitialDataLoaded, history,
                   uiVars, now, req, clr, started, keyIn, keyOut, recorded, listVars>>

\* The store carries out the oldest setItem call of the save effects, or
\* fails it: the rejection is logged as a Save Error and nothing else.
SaveWrite ==
    /\ saveEffect.pending # <<>>
    /\ \E ok \in BOOLEAN :
          LET call == Head(saveEffect.pending)
              key == StoreKeyOf(call.hook)
          IN  /\ asyncStorage' = IF ok
                                 THEN [k \in (DOMAIN asyncStorage) \cup {key} |->
                                          IF k = key THEN call.value ELSE asyncStorage[k]]
                                 ELSE asyncStorage
              /\ saveEffect' = [saveEffect EXCEPT !.pending = Tail(@),
                                                  !.saveError = @ \/ ~ok]
    /\ UNCHANGED <<definitionsCacheIndex, isInitialDataLoaded, history, uiVars, now,
                   req, clr, started, keyIn, keyOut, recorded, listVars>>

\* AsyncStorage as an earlier session left it: the snapshots of the
\* favorites and of the history.
StoredSnapshots ==
    [k \in {FAVORITES_KEY, HISTORY_KEY} |->
        IF k = FAVORITES_KEY
        THEN <<[word |-> <<"a">>, timestamp |-> 0]>>
        ELSE StoredHistory(1)]

InitSave ==
    /\ InitApp
    /\ asyncStorage = StoredSnapshots
    /\ keyIn = NoKeyIn
    /\ keyOut = <<>>
    /\ recorded = 0

\* The load, changes of the favorites and of the history, the save effects
\* and the store's writes.
NextSave ==
    \/ InitialLoad
    \/ ClearHistory
    \/ RemoveFavorite(Str(<<"a">>))
    \/ \E hook \in Hooks : RunSaveEffect(hook)
    \/ SaveWrite

SpecSave == InitSave /\ [][NextSave]_vars

\* React runs a due effect after the render; the store carries out a call it
\* was handed.
SpecSaveFair ==
    /\ SpecSave
    /\ \A hook \in Hooks : WF_vars(RunSaveEffect(hook))
    /\ WF_vars(SaveWrite)

\* Every stored snapshot is the in-memory collection.
SnapshotsCurrent ==
    \A hook \in Hooks :
        /\ StoreKeyOf(hook) \in DOMAIN asyncStorage
        /\ asyncStorage[StoreKeyOf(hook)] = SnapshotOf(hook, Collections[hook])

\* C24: once the collections are loaded, a changed collection is written as
\* a full snapshot under its own store key: if the collections get loaded, no
\* write of a snapshot ever fails and the collections stop changing, then
\* from some point on every stored snapshot equals the in-memory collection.
C24_SnapshotsCatchUp ==
    (<>isInitialDataLoaded
        /\ []~saveEffect.saveError
        /\ <>[][UNCHANGED <<favorites, history, quizList, definitionsCacheIndex>>]_vars)
    => <>[]SnapshotsCurrent

\* The favorites and the history were emptied and the snapshots of the empty
\* collections have replaced the stored ones.
C24_Witness ==
    /\ isInitialDataLoaded
    /\ ~saveEffect.saveError
    /\ saveEffect.pending = <<>>
    /\ SnapshotsCurrent
    /\ asyncStorage[FAVORITES_KEY] = <<>>
    /\ asyncStorage[HISTORY_KEY] = <<>>
    /\ toast # ""

\* ------------------------------------------------------------------------
\* Requests settle (specification SpecPairFair)
\* ------------------------------------------------------------------------
\* What an invocation of handleDefine awaits resolves: the store's read, the
\* service call and the store's write, each with a value or an error. The
\* service's two answers are possible in the same states and each ends the
\* wait, so the failing answer stands for both here: the wait for the
\* service ends, with either answer.
Resolves(t) ==
    \/ StoreRead(t)
    \/ LookupResume(t)
    \/ FetchFails(t)
    \/ StoreWrite(t)
    \/ SaveResume(t)

\* The store and the service answer every call; the continuation of an
\* answered await runs.
SpecPairFair == SpecPair /\ \A t \in Tasks : WF_vars(Resolves(t))

C26_LoadingWhileInFlight ==
    (\E t \in Tasks : req[t].pc # "idle") => isLoading

\* ------------------------------------------------------------------------
\* Replaying a history item
\* ------------------------------------------------------------------------
\* The params handleHistoryPress hands to handleDefine for a history item.
HistoryPressParams(item) ==
    << <<WORD, item.word>>,
       <<LENGTH, OrElse(item.length, Num(30))>>,
       <<TONE, item.tone>>,
       <<CONTEXT, item.context>>,
       <<LANG, item.lang>> >>

\* The cache keys handleDefine derives when the item is replayed, for each
\* state the form can be in.
ReplayKeys(item) ==
    {generateCacheKey(RequestParamsOf(HistoryPressParams(item), form)) : form \in Forms}

\* One request has run and ended: its fetch succeeded and its cache write
\* succeeded (no notice was raised), and nothing was cleared.
FetchedAndCached ==
    /\ started = 1
    /\ \A t \in Tasks : req[t].pc = "idle"
    /\ toast = ""
    /\ error = Null
    /\ Len(history) = 1
    /\ DOMAIN definitionsCacheIndex # {}

\* C27: the cache key derived from the fields of a history item that a
\* successful fetch with a successful cache write recorded is the key the
\* entry was stored under, so that replaying the item is a cache hit.
C27_ReplayOfFetchedItemHits ==
    FetchedAndCached =>
        /\ ReplayKeys(history[1]) \subseteq DOMAIN definitionsCacheIndex
        /\ ReplayKeys(history[1]) \subseteq DOMAIN asyncStorage

\* ------------------------------------------------------------------------
\* Ids of the quiz list (specification SpecQuiz)
\* ------------------------------------------------------------------------
\* Two different words handed to addToQuiz.
QuizWords == {Str(<<"a">>), Str(<<"b">>)}

\* Words are added to the quiz list and removed from it, on a first run,
\* while the clock advances.
NextQuiz ==
    \/ InitialLoad
    \/ Tick
    \/ \E w \in QuizWords : AddToQuiz(w)
    \/ \E i \in 1..Len(rendered.quizList) : RemoveFromQuiz(rendered.quizList[i].id)
    \/ Render

SpecQuiz == InitTwice /\ [][NextQuiz]_vars

\* C28: no two items of the quiz list share an id, also when two different
\* words are inserted at the same clock value.
C28_QuizIdsDistinct ==
    \A i, j \in 1..Len(quizList) : quizList[i].id = quizList[j].id => i = j

\* ------------------------------------------------------------------------
\* Changes made before the load has settled
\* ------------------------------------------------------------------------
\* C29: a change made to a collection before its load has settled is not
\* lost: when the load settles after clearHistory has run, the history is
\* still cleared; and no snapshot is handed to the store, nor written, before
\* the load has settled.
C29_ChangeBeforeLoadKept ==
    /\ [][(~isInitialDataLoaded /\ isInitialDataLoaded' /\ toast = MsgHistoryCleared)
            => history' = <<>>]_vars
    /\ [](~isInitialDataLoaded
            => saveEffect.pending = <<>> /\ asyncStorage = StoredSnapshots)

\* ------------------------------------------------------------------------
\* What clearCache leaves alone (specification SpecClear)
\* ------------------------------------------------------------------------
\* The load, clearCache at its suspension points, and the callbacks that
\* change the history, the favorites and the quiz list.
NextClear ==
    \/ InitialLoad
    \/ ClearStart \/ StoreMultiRemove \/ ClearResume
    \/ ClearHistory
    \/ \E w \in ListWords : RemoveFavorite(w)
    \/ \E i \in 1..Len(rendered.quizList) : RemoveFromQuiz(rendered.quizList[i].id)
    \/ Render

SpecClear == InitLoad /\ [][NextClear]_vars

\* The store keys of the history, the favorites and the quiz list.
ListKeys == {HISTORY_KEY, FAVORITES_KEY, QUIZ_LIST_KEY}

\* C30: a step of clearCache leaves the history, the favorites and the quiz
\* list as they are, in memory and in their stored snapshots, and every store
\* key it removes carries the cache prefix.
C30_ClearCacheFrame ==
    [][(ClearStart \/ StoreMultiRemove \/ ClearResume)
        => /\ UNCHANGED <<history, favorites, quizList>>
           /\ \A k \in ListKeys \cap DOMAIN asyncStorage :
                 k \in DOMAIN asyncStorage' /\ asyncStorage'[k] = asyncStorage[k]
           /\ \A k \in DOMAIN asyncStorage \ DOMAIN asyncStorage' : IsCacheKey(k)
           /\ DOMAIN asyncStorage' \subseteq DOMAIN asyncStorage]_vars

\* clearCache has removed the stored entry and reset the index, with the
\* collections loaded from their snapshots.
C30_Witness ==
    /\ isInitialDataLoaded
    /\ clr.pc = "idle"
    /\ toast = MsgCleared
    /\ StoredCacheKeys = {}
    /\ definitionsCacheIndex = EmptyIndex
    /\ history = asyncStorage[HISTORY_KEY]
    /\ history # <<>>
    /\ favorites = asyncStorage[FAVORITES_KEY]
    /\ quizList = asyncStorage[QUIZ_LIST_KEY]

====
